---------------------------- MODULE Spec2Model ----------------------------
(***************************************************************************)
(* Model of the shuffleDeck shuffle engine (src/src/utils/deckUtils.ts),   *)
(* its statistics helpers (statisticsUtils, found in                       *)
(* src/src/types/shuffle.ts lines 43-209) and the App component that       *)
(* drives them (src/unnamed/part_001).                                     *)
(*                                                                         *)
(* JavaScript arrays are modelled as sequences; the array element at the   *)
(* JavaScript index i is the sequence element i + 1.  All indices stored   *)
(* in records (cardIndices, fromPositions, toPositions, position) are the  *)
(* 0-based JavaScript indices.                                             *)
(*                                                                         *)
(* Math.random() is modelled as the rational k / RandDenom with            *)
(* k \in 0 .. RandDenom - 1; a draw trace is the sequence of numerators    *)
(* the successive Math.random() calls of one function call return.         *)
(*                                                                         *)
(* Scope of the App part: the handlers behind the algorithm selector and   *)
(* every button of App, its mount effect, the callbacks of the timers      *)
(* playback starts, and the renders of React between them.  The component  *)
(* starts in the state of its first render, with an empty deck; the mount  *)
(* effect stores the ordered deck of 52 cards.  A state setter only queues *)
(* an update: a handler reads the state of the last render, an updater     *)
(* function the state the updates queued before it give.  React renders    *)
(* the updates of a click before the click ends, together with the updates *)
(* still queued, and the updates of a timer callback or of the mount       *)
(* effect in a later task, so that a click or another callback may run in  *)
(* between; a timer callback runs while fewer than MaxQueued updates wait  *)
(* for a render.  A timer callback works on the values its closure         *)
(* captured in the render the handler that created it belongs to.          *)
(* Time is not modelled: a pending callback may run at any moment.         *)
(* showComparison, which only selects what is rendered, is not part of the *)
(* state.  AppSpec follows runs of up to MaxPresses user actions and       *)
(* MaxTicks interval callbacks; every Math.random() of one shuffle of the  *)
(* component returns the same value, the lowest or the highest.  React     *)
(* calls a state updater once in a production build and twice in a         *)
(* development build under StrictMode (main.tsx, part_002 lines 285-289);  *)
(* the build is fixed when the run starts.                                 *)
(***************************************************************************)
EXTENDS Integers, Sequences, FiniteSets, TLC

VARIABLES
    \* ---- calls of the exported functions (specification Spec) ----
    op,                 \* name of the function called last, "none" before
    arg,                \* the array passed as `deck`, as it is after the call
    arg0,               \* the same array as it was when the call was made
    arg2,               \* the second array passed, `shuffledDeck`
    rnd,                \* the draw trace the call consumed its draws from
    step,               \* the ShuffleStep passed to applyShuffleStep
    res,                \* what the call left: return value, locals at exit
    fed,                \* the arguments of the updateAlgorithmStatistics
                        \* calls made on one record, oldest first
    \* ---- React state of App as of the last render (AppSpec) ----
    deck,
    originalDeck,
    isShuffled,
    shuffleCount,
    selectedAlgorithm,
    algorithmStats,
    shuffleSteps,
    currentStepIndex,
    isStepMode,
    stepDeck,
    animationState,
    \* ---- React's bookkeeping for App ----
    pending,            \* the state updates queued and not yet rendered,
                        \* oldest first
    effectRan,          \* the mount effect of lines 56-68 has run
    \* ---- the ref and the timers of the page, created by App ----
    animationIntervalRef,
    intervals,          \* the live setInterval timers: handle and closure
    timeouts,           \* the pending setTimeout callbacks, oldest first
    lastTimerId,        \* the handle the last timer created was given
    \* ---- the build the page runs ----
    updaterCalls,       \* the calls React makes of one state updater when
                        \* it renders: 1, or 2 in a development build under
                        \* StrictMode
    \* ---- history of the run, not state of the program ----
    haltPressed,        \* Pause, Stop or Reset was pressed and Play, Next
                        \* Step or Previous Step has not been since
    countAtStepEntry,   \* the shuffleCount the selected algorithm had when
                        \* step mode was entered, 0 outside step mode
    recordedFrom,       \* the deck Step Through handed to the step
                        \* recorder, empty outside step mode
    sinceClear,         \* whether Clear All Stats was pressed, and for each
                        \* algorithm the shuffles completed since it was
    presses,            \* the user actions (button presses and changes of
                        \* the select) made so far
    ticks               \* the interval callbacks run so far

callVars == <<op, arg, arg0, arg2, rnd, step, res, fed>>
hookVars == <<deck, originalDeck, isShuffled, shuffleCount, selectedAlgorithm,
              algorithmStats, shuffleSteps, currentStepIndex, isStepMode, stepDeck,
              animationState>>
timerVars == <<animationIntervalRef, intervals, timeouts, lastTimerId>>
historyVars == <<haltPressed, countAtStepEntry, recordedFrom, sinceClear, presses, ticks>>
appVars == <<hookVars, pending, effectRan, timerVars, updaterCalls, historyVars>>
vars == <<op, arg, arg0, arg2, rnd, step, res, fed,
          deck, originalDeck, isShuffled, shuffleCount, selectedAlgorithm,
          algorithmStats, shuffleSteps, currentStepIndex, isStepMode, stepDeck,
          animationState, pending, effectRan, animationIntervalRef,
          intervals, timeouts, lastTimerId, updaterCalls,
          haltPressed, countAtStepEntry, recordedFrom, sinceClear, presses, ticks>>

----------------------------------------------------------------------------
(* Bounds of the model *)

\* largest deck passed to a function of deckUtils in Spec
MaxN == 3
\* Math.random() returns one of 0/RandDenom .. (RandDenom-1)/RandDenom
RandDenom == 7

----------------------------------------------------------------------------
(* JavaScript values and arrays *)

\* the value undefined
Undefined == [undefined |-> TRUE]
\* an array slot that was never assigned (a hole of a sparse array)
Hole == [empty |-> TRUE]

Min(a, b) == IF a < b THEN a ELSE b
Max(a, b) == IF a > b THEN a ELSE b

\* Math.floor(Math.random() * m) for the draw with numerator k
FloorRandomTimes(k, m) == (k * m) \div RandDenom

\* Math.random() < 0.5 for the draw with numerator k
RandomBelowHalf(k) == 2 * k < RandDenom

\* Array.from({length: n}, (_, i) => f(i)) with f(i) = base + i
ArrayFromLength(n, base) == [i \in 1..n |-> base + (i - 1)]

\* arr[i]: a read past the end, before 0, or of a hole gives undefined
ArrayGet(arr, i) ==
    IF i >= 0 /\ i < Len(arr) /\ arr[i + 1] # Hole THEN arr[i + 1] ELSE Undefined

\* arr[i] = v: a write past the end grows the array and leaves holes, a
\* write at a negative index sets a property and leaves the elements alone
ArraySet(arr, i, v) ==
    IF i < 0 THEN arr
    ELSE IF i < Len(arr) THEN [arr EXCEPT ![i + 1] = v]
    ELSE arr \o [k \in 1..(i - Len(arr)) |-> Hole] \o <<v>>

\* [...arr]: the iterator reads holes as undefined
ArraySpread(arr) == [k \in 1..Len(arr) |-> IF arr[k] = Hole THEN Undefined ELSE arr[k]]

\* [arr[i], arr[j]] = [arr[j], arr[i]]: both reads, then the two writes
ArraySwap(arr, i, j) ==
    LET right == <<ArrayGet(arr, j), ArrayGet(arr, i)>>
    IN  ArraySet(ArraySet(arr, i, right[1]), j, right[2])

\* arr.slice(from) and arr.slice(from, to) on 0 <= from <= to
ArraySlice(arr, from, to) == SubSeq(arr, from + 1, Min(to, Len(arr)))

\* {...card, position: p, isHighlighted: h}; spreading undefined adds nothing
CardWith(card, p, h) ==
    IF card = Undefined
    THEN [position |-> p, isHighlighted |-> h]
    ELSE [f \in (DOMAIN card) \cup {"position", "isHighlighted"} |->
            IF f = "position" THEN p
            ELSE IF f = "isHighlighted" THEN h
            ELSE card[f]]

\* card.id; undefined on an object without that property
IdOf(card) == IF "id" \in DOMAIN card THEN card.id ELSE Undefined

\* card.id === id for an id that is a string: false on an object without
\* that property
HasId(card, id) == "id" \in DOMAIN card /\ card.id = id

\* the order of a deck: the id found at each index
IdsOf(cards) == [k \in 1..Len(cards) |-> IdOf(cards[k])]

----------------------------------------------------------------------------
(* Cards and decks: deckUtils.ts lines 4-40 *)

SUITS == <<"hearts", "diamonds", "clubs", "spades">>
RANKS == <<"A", "2", "3", "4", "5", "6", "7", "8", "9", "10", "J", "Q", "K">>

\* the mutant of OrderedCard: runs through the suits inside each rank
OrderedCardRankMajor(position) ==
    LET suit == SUITS[(position % Len(SUITS)) + 1]
        rank == RANKS[(position \div Len(SUITS)) + 1]
    IN  [id |-> suit \o "-" \o rank, suit |-> suit, rank |-> rank,
         position |-> position, isHighlighted |-> FALSE]

\* the card pushed at the value `position` of the counter
OrderedCard(position) ==
    LET suit == SUITS[(position \div Len(RANKS)) + 1]
        rank == RANKS[(position % Len(RANKS)) + 1]
    IN  [id |-> suit \o "-" \o rank, suit |-> suit, rank |-> rank,
         position |-> position, isHighlighted |-> FALSE]

createOrderedDeck == [k \in 1..(Len(SUITS) * Len(RANKS)) |-> OrderedCard(k - 1)]

\* the mutant of Renumbered: leaves the highlight of each card as it was
RenumberedKeepsHighlights(cards) ==
    [k \in 1..Len(cards) |->
        IF cards[k] = Hole THEN Hole
        ELSE CardWith(cards[k], k - 1,
                      "isHighlighted" \in DOMAIN cards[k] /\ cards[k].isHighlighted)]

\* deck.map((card, index) => ({...card, position: index, isHighlighted: false}))
\* a hole is skipped by map and stays a hole
Renumbered(cards) ==
    [k \in 1..Len(cards) |->
        IF cards[k] = Hole THEN Hole ELSE CardWith(cards[k], k - 1, FALSE)]

resetDeck(d) == [deck |-> d, ret |-> Renumbered(d)]

\* {...card, isHighlighted: false}
Unhighlighted(card) ==
    IF card = Undefined
    THEN [isHighlighted |-> FALSE]
    ELSE [f \in (DOMAIN card) \cup {"isHighlighted"} |->
            IF f = "isHighlighted" THEN FALSE ELSE card[f]]

clearHighlights(d) ==
    [deck |-> d,
     ret |-> [k \in 1..Len(d) |-> IF d[k] = Hole THEN Hole ELSE Unhighlighted(d[k])]]

----------------------------------------------------------------------------
(* Fisher-Yates: deckUtils.ts lines 46-96 *)

\* the mutant of fisherYatesRandomIndex: draws from [0, i - 1], never i itself
fisherYatesRandomIndexBelow(r, i) == FloorRandomTimes(r, i)

\* line 53: Math.floor(Math.random() * (i + 1)) for the draw with numerator r
fisherYatesRandomIndex(r, i) == FloorRandomTimes(r, i + 1)

\* lines 51-57: the iterations of the loop from the value i of the counter
\* down to the value last, with `used` draws of rnd consumed before them.
\* One iteration draws, swaps and decrements the counter; a run of several
\* is its first half followed, from the counter value that half leaves, by
\* its second half.
RECURSIVE fisherYatesLoop(_, _, _, _, _)
fisherYatesLoop(shuffledDeck, i, last, r, used) ==
    IF i < last
    THEN [shuffledDeck |-> shuffledDeck, i |-> i, used |-> used]
    ELSE IF i = last
    THEN LET randomIndex == fisherYatesRandomIndex(r[used + 1], i)
         IN  [shuffledDeck |-> ArraySwap(shuffledDeck, i, randomIndex), i |-> i - 1,
              used |-> used + 1]
    ELSE LET first == fisherYatesLoop(shuffledDeck, i, (i + last + 1) \div 2, r, used)
         IN  IF first.i >= last
             THEN fisherYatesLoop(first.shuffledDeck, first.i, last, r, first.used)
             ELSE first

\* line 51: the counter runs from shuffledDeck.length - 1 down to 1
fisherYatesShuffle(d, r) ==
    LET shuffledDeck == ArraySpread(d)
        exit == fisherYatesLoop(shuffledDeck, Len(shuffledDeck) - 1, 1, r, 0)
    IN  [deck |-> d,
         shuffledDeck |-> exit.shuffledDeck,
         used |-> exit.used,
         ret |-> Renumbered(exit.shuffledDeck)]

\* the mutant of fisherYatesStep: records the swap partner one too low
fisherYatesStepOffByOne(count, i, randomIndex) ==
    [description |-> "Step " \o ToString(count + 1) \o ": Swap card at position "
                       \o ToString(i) \o " with card at position " \o ToString(randomIndex),
     cardIndices |-> <<i, Max(randomIndex - 1, 0)>>,
     action |-> "swap",
     fromPositions |-> <<i, randomIndex>>,
     toPositions |-> <<randomIndex, i>>]

\* the mutant of fisherYatesStep: records the destinations in the order of
\* the sources
fisherYatesStepSameOrder(count, i, randomIndex) ==
    [description |-> "Step " \o ToString(count + 1) \o ": Swap card at position "
                       \o ToString(i) \o " with card at position " \o ToString(randomIndex),
     cardIndices |-> <<i, randomIndex>>,
     action |-> "swap",
     fromPositions |-> <<i, randomIndex>>,
     toPositions |-> <<i, randomIndex>>]

\* lines 81-87: the record of one iteration, `count` records pushed before it
fisherYatesStep(count, i, randomIndex) ==
    [description |-> "Step " \o ToString(count + 1) \o ": Swap card at position "
                       \o ToString(i) \o " with card at position " \o ToString(randomIndex),
     cardIndices |-> <<i, randomIndex>>,
     action |-> "swap",
     fromPositions |-> <<i, randomIndex>>,
     toPositions |-> <<randomIndex, i>>]

\* lines 76-93: the iterations of the loop from the value i of the counter
\* down to the value last; a run of several is its first half followed,
\* from the counter value that half leaves, by its second half
RECURSIVE fisherYatesStepsLoop(_, _, _, _, _, _)
fisherYatesStepsLoop(workingDeck, steps, i, last, r, used) ==
    IF i < last
    THEN [workingDeck |-> workingDeck, steps |-> steps, i |-> i, used |-> used]
    ELSE IF i = last
    THEN LET randomIndex == FloorRandomTimes(r[used + 1], i + 1)
         IN  [workingDeck |-> ArraySwap(workingDeck, i, randomIndex),
              steps |-> Append(steps, fisherYatesStep(Len(steps), i, randomIndex)),
              i |-> i - 1, used |-> used + 1]
    ELSE LET first == fisherYatesStepsLoop(workingDeck, steps, i, (i + last + 1) \div 2,
                                           r, used)
         IN  IF first.i >= last
             THEN fisherYatesStepsLoop(first.workingDeck, first.steps, first.i, last, r,
                                       first.used)
             ELSE first

\* the mutant of fisherYatesShuffleSteps: reads the draws from the last one
\* back
fisherYatesShuffleStepsDrawsBackwards(d, r) ==
    LET workingDeck == ArraySpread(d)
        backwards == [k \in 1..Len(r) |-> r[Len(r) + 1 - k]]
        exit == fisherYatesStepsLoop(workingDeck, <<>>, Len(workingDeck) - 1, 1, backwards, 0)
    IN  [deck |-> d,
         workingDeck |-> exit.workingDeck,
         used |-> exit.used,
         ret |-> exit.steps]

fisherYatesShuffleSteps(d, r) ==
    LET workingDeck == ArraySpread(d)
        exit == fisherYatesStepsLoop(workingDeck, <<>>, Len(workingDeck) - 1, 1, r, 0)
    IN  [deck |-> d,
         workingDeck |-> exit.workingDeck,
         used |-> exit.used,
         ret |-> exit.steps]

----------------------------------------------------------------------------
(* applyShuffleStep: deckUtils.ts lines 101-119 *)

\* step.cardIndices.includes(index)
Includes(indices, index) == \E k \in 1..Len(indices) : indices[k] = index

\* lines 114-118; map skips the holes of newDeck
Highlighted(newDeck, s) ==
    [k \in 1..Len(newDeck) |->
        IF newDeck[k] = Hole THEN Hole
        ELSE CardWith(newDeck[k], k - 1, Includes(s.cardIndices, k - 1))]

\* the mutant of applyShuffleStep: keeps the highlights the cards came with
applyShuffleStepKeepHighlights(d, s) ==
    LET newDeck == ArraySpread(d)
        swapped == IF s.action = "swap" /\ Len(s.cardIndices) = 2
                   THEN ArraySwap(newDeck, s.cardIndices[1], s.cardIndices[2])
                   ELSE newDeck
    IN  [deck |-> d,
         threw |-> FALSE,
         ret |-> [k \in 1..Len(swapped) |->
                    IF swapped[k] = Hole THEN Hole
                    ELSE CardWith(swapped[k], k - 1,
                                  \/ Includes(s.cardIndices, k - 1)
                                  \/ /\ "isHighlighted" \in DOMAIN swapped[k]
                                     /\ swapped[k].isHighlighted)]]

\* the mutant of applyShuffleStep: swaps whatever the action of the record is
applyShuffleStepAlwaysSwap(d, s) ==
    LET newDeck == ArraySpread(d)
        swapped == IF Len(s.cardIndices) = 2
                   THEN ArraySwap(newDeck, s.cardIndices[1], s.cardIndices[2])
                   ELSE newDeck
    IN  [deck |-> d, threw |-> FALSE, ret |-> Highlighted(swapped, s)]

\* no statement of the function throws: an index outside the array reads
\* undefined and writes a new slot, and spreading undefined is allowed
applyShuffleStep(d, s) ==
    LET newDeck == ArraySpread(d)
        swapped == IF s.action = "swap" /\ Len(s.cardIndices) = 2
                   THEN ArraySwap(newDeck, s.cardIndices[1], s.cardIndices[2])
                   ELSE newDeck
    IN  [deck |-> d, threw |-> FALSE, ret |-> Highlighted(swapped, s)]

----------------------------------------------------------------------------
(* Riffle: deckUtils.ts lines 125-232 *)

\* the mutant of riffleSplitPoint: the split point is not kept below the
\* length of the deck
riffleSplitPointUnclamped(n, r) ==
    LET midPoint == n \div 2
        splitVariation == FloorRandomTimes(r, 3) - 1
    IN  Max(1, midPoint + splitVariation)

\* lines 130-132 and 173-175: the split point of a deck of n cards for the
\* draw with numerator r
riffleSplitPoint(n, r) ==
    LET midPoint == n \div 2
        splitVariation == FloorRandomTimes(r, 3) - 1
    IN  Max(1, Min(n - 1, midPoint + splitVariation))

\* lines 142-154: the next `turns` iterations of the loop, as far as its
\* condition holds; Math.random() is called only when both halves have
\* cards.  Every iteration takes one card, so the loop is over after as many
\* iterations as the halves have cards; a run of several iterations is its
\* first half followed by its second half.
RECURSIVE riffleLoop(_, _, _, _, _, _, _, _)
riffleLoop(leftHalf, rightHalf, leftIndex, rightIndex, result, r, used, turns) ==
    IF turns <= 0 \/ ~(leftIndex < Len(leftHalf) \/ rightIndex < Len(rightHalf))
    THEN [leftIndex |-> leftIndex, rightIndex |-> rightIndex, result |-> result,
          used |-> used]
    ELSE IF turns = 1
    THEN LET draws == leftIndex < Len(leftHalf) /\ ~(rightIndex >= Len(rightHalf))
             takeFromLeft == /\ leftIndex < Len(leftHalf)
                             /\ \/ rightIndex >= Len(rightHalf)
                                \/ RandomBelowHalf(r[used + 1])
             usedNow == IF draws THEN used + 1 ELSE used
         IN  IF takeFromLeft
             THEN [leftIndex |-> leftIndex + 1, rightIndex |-> rightIndex,
                   result |-> Append(result, leftHalf[leftIndex + 1]), used |-> usedNow]
             ELSE [leftIndex |-> leftIndex, rightIndex |-> rightIndex + 1,
                   result |-> Append(result, rightHalf[rightIndex + 1]), used |-> usedNow]
    ELSE LET first == riffleLoop(leftHalf, rightHalf, leftIndex, rightIndex, result, r,
                                 used, turns \div 2)
         IN  riffleLoop(leftHalf, rightHalf, first.leftIndex, first.rightIndex,
                        first.result, r, first.used, turns - turns \div 2)

\* the mutant of riffleShuffle: the right half starts one card late
riffleShuffleDropsCard(d, r) ==
    LET shuffledDeck == ArraySpread(d)
        splitPoint == riffleSplitPoint(Len(shuffledDeck), r[1])
        leftHalf == ArraySlice(shuffledDeck, 0, splitPoint)
        rightHalf == ArraySlice(shuffledDeck, splitPoint + 1, Len(shuffledDeck))
        exit == riffleLoop(leftHalf, rightHalf, 0, 0, <<>>, r, 1,
                           Len(leftHalf) + Len(rightHalf))
    IN  [deck |-> d, shuffledDeck |-> shuffledDeck, splitPoint |-> splitPoint,
         used |-> exit.used, ret |-> Renumbered(exit.result)]

\* the mutant of riffleShuffle: the right half is dealt from its last card
riffleShuffleRightReversed(d, r) ==
    LET shuffledDeck == ArraySpread(d)
        splitPoint == riffleSplitPoint(Len(shuffledDeck), r[1])
        leftHalf == ArraySlice(shuffledDeck, 0, splitPoint)
        right == ArraySlice(shuffledDeck, splitPoint, Len(shuffledDeck))
        rightHalf == [k \in 1..Len(right) |-> right[Len(right) + 1 - k]]
        exit == riffleLoop(leftHalf, rightHalf, 0, 0, <<>>, r, 1,
                           Len(leftHalf) + Len(rightHalf))
    IN  [deck |-> d, shuffledDeck |-> shuffledDeck, splitPoint |-> splitPoint,
         used |-> exit.used, ret |-> Renumbered(exit.result)]

riffleShuffle(d, r) ==
    LET shuffledDeck == ArraySpread(d)
        splitPoint == riffleSplitPoint(Len(shuffledDeck), r[1])
        leftHalf == ArraySlice(shuffledDeck, 0, splitPoint)
        rightHalf == ArraySlice(shuffledDeck, splitPoint, Len(shuffledDeck))
        exit == riffleLoop(leftHalf, rightHalf, 0, 0, <<>>, r, 1,
                           Len(leftHalf) + Len(rightHalf))
    IN  [deck |-> d, shuffledDeck |-> shuffledDeck, splitPoint |-> splitPoint,
         used |-> exit.used, ret |-> Renumbered(exit.result)]

\* lines 181-187
riffleSplitStep(n, splitPoint, leftLength, rightLength) ==
    [description |-> "Step 1: Split deck at position " \o ToString(splitPoint) \o " ("
                       \o ToString(leftLength) \o " cards left, "
                       \o ToString(rightLength) \o " cards right)",
     cardIndices |-> ArrayFromLength(n, 0),
     action |-> "split",
     fromPositions |-> ArrayFromLength(n, 0),
     toPositions |-> ArrayFromLength(n, 0)]

\* the mutant of riffleMoveStep: records result.length itself as destination
riffleMoveStepAfterPush(stepCount, half, indexInHalf, index, resultLength) ==
    [description |-> "Step " \o ToString(stepCount) \o ": Take card from " \o half
                       \o " half (position " \o ToString(indexInHalf) \o " in "
                       \o half \o " half)",
     cardIndices |-> <<index>>,
     action |-> "move",
     fromPositions |-> <<index>>,
     toPositions |-> <<resultLength>>]

\* lines 204-210 and 217-223; resultLength is result.length after the push
riffleMoveStep(stepCount, half, indexInHalf, index, resultLength) ==
    [description |-> "Step " \o ToString(stepCount) \o ": Take card from " \o half
                       \o " half (position " \o ToString(indexInHalf) \o " in "
                       \o half \o " half)",
     cardIndices |-> <<index>>,
     action |-> "move",
     fromPositions |-> <<index>>,
     toPositions |-> <<resultLength - 1>>]

\* lines 195-229: the next `turns` iterations of the loop, as far as its
\* condition holds; a run of several iterations is its first half followed
\* by its second half
RECURSIVE riffleStepsLoop(_, _, _, _, _, _, _, _, _, _, _)
riffleStepsLoop(leftHalf, rightHalf, splitPoint, leftIndex, rightIndex, result, steps, stepCount, r, used, turns) ==
    IF turns <= 0 \/ ~(leftIndex < Len(leftHalf) \/ rightIndex < Len(rightHalf))
    THEN [leftIndex |-> leftIndex, rightIndex |-> rightIndex, result |-> result,
          steps |-> steps, stepCount |-> stepCount, used |-> used]
    ELSE IF turns = 1
    THEN LET draws == leftIndex < Len(leftHalf) /\ ~(rightIndex >= Len(rightHalf))
             takeFromLeft == /\ leftIndex < Len(leftHalf)
                             /\ \/ rightIndex >= Len(rightHalf)
                                \/ RandomBelowHalf(r[used + 1])
             usedNow == IF draws THEN used + 1 ELSE used
         IN  IF takeFromLeft
             THEN [leftIndex |-> leftIndex + 1, rightIndex |-> rightIndex,
                   result |-> Append(result, leftHalf[leftIndex + 1]),
                   steps |-> Append(steps, riffleMoveStep(stepCount, "left", leftIndex,
                                                          leftIndex, Len(result) + 1)),
                   stepCount |-> stepCount + 1, used |-> usedNow]
             ELSE [leftIndex |-> leftIndex, rightIndex |-> rightIndex + 1,
                   result |-> Append(result, rightHalf[rightIndex + 1]),
                   steps |-> Append(steps, riffleMoveStep(stepCount, "right", rightIndex,
                                                          splitPoint + rightIndex,
                                                          Len(result) + 1)),
                   stepCount |-> stepCount + 1, used |-> usedNow]
    ELSE LET first == riffleStepsLoop(leftHalf, rightHalf, splitPoint, leftIndex,
                                      rightIndex, result, steps, stepCount, r, used,
                                      turns \div 2)
         IN  riffleStepsLoop(leftHalf, rightHalf, splitPoint, first.leftIndex,
                             first.rightIndex, first.result, first.steps,
                             first.stepCount, r, first.used, turns - turns \div 2)

riffleShuffleSteps(d, r) ==
    LET workingDeck == ArraySpread(d)
        splitPoint == riffleSplitPoint(Len(workingDeck), r[1])
        leftHalf == ArraySlice(workingDeck, 0, splitPoint)
        rightHalf == ArraySlice(workingDeck, splitPoint, Len(workingDeck))
        first == riffleSplitStep(Len(workingDeck), splitPoint, Len(leftHalf), Len(rightHalf))
        exit == riffleStepsLoop(leftHalf, rightHalf, splitPoint, 0, 0, <<>>,
                                <<first>>, 2, r, 1, Len(leftHalf) + Len(rightHalf))
    IN  [deck |-> d, workingDeck |-> workingDeck, splitPoint |-> splitPoint,
         result |-> exit.result, used |-> exit.used, ret |-> exit.steps]

----------------------------------------------------------------------------
(* Overhand: deckUtils.ts lines 248-312 *)

\* "card" or "cards": `card${size > 1 ? 's' : ''}`
CardWord(size) == IF size > 1 THEN "cards" ELSE "card"

\* lines 252-264: the next `turns` iterations of the loop, as far as its
\* condition holds; splice(0, groupSize) takes the group off the front of
\* shuffledDeck, unshift puts it at the front of result.  Every iteration
\* takes a card or more, so the loop is over after as many iterations as the
\* deck has cards; a run of several iterations is its first half followed by
\* its second half.
RECURSIVE overhandLoop(_, _, _, _, _)
overhandLoop(shuffledDeck, result, r, used, turns) ==
    IF turns <= 0 \/ ~(Len(shuffledDeck) > 0)
    THEN [shuffledDeck |-> shuffledDeck, result |-> result, used |-> used]
    ELSE IF turns = 1
    THEN LET groupSize == Min(Len(shuffledDeck), FloorRandomTimes(r[used + 1], 7) + 1)
             group == SubSeq(shuffledDeck, 1, groupSize)
         IN  [shuffledDeck |-> SubSeq(shuffledDeck, groupSize + 1, Len(shuffledDeck)),
              result |-> group \o result, used |-> used + 1]
    ELSE LET first == overhandLoop(shuffledDeck, result, r, used, turns \div 2)
         IN  overhandLoop(first.shuffledDeck, first.result, r, first.used,
                          turns - turns \div 2)

\* the mutant of overhandShuffle: splices the groups off the array it was given
overhandShuffleInPlace(d, r) ==
    LET exit == overhandLoop(d, <<>>, r, 0, Len(d))
    IN  [deck |-> exit.shuffledDeck, shuffledDeck |-> exit.shuffledDeck,
         used |-> exit.used, ret |-> Renumbered(exit.result)]

\* the mutant of overhandShuffle: puts each group behind the ones before it
overhandShuffleAppends(d, r) ==
    LET shuffledDeck == ArraySpread(d)
        exit == overhandLoop(shuffledDeck, <<>>, r, 0, Len(shuffledDeck))
    IN  [deck |-> d, shuffledDeck |-> exit.shuffledDeck,
         used |-> exit.used, ret |-> Renumbered(shuffledDeck)]

overhandShuffle(d, r) ==
    LET shuffledDeck == ArraySpread(d)
        exit == overhandLoop(shuffledDeck, <<>>, r, 0, Len(shuffledDeck))
    IN  [deck |-> d, shuffledDeck |-> exit.shuffledDeck,
         used |-> exit.used, ret |-> Renumbered(exit.result)]

\* the mutant of overhandStep: the destinations are counted from result.length
\* after the group is placed
overhandStepAfterUnshift(stepCount, groupSize, resultLength) ==
    [description |-> "Step " \o ToString(stepCount) \o ": Take " \o ToString(groupSize)
                       \o " " \o CardWord(groupSize) \o " from top and place on bottom",
     cardIndices |-> ArrayFromLength(groupSize, 0),
     action |-> "move",
     fromPositions |-> ArrayFromLength(groupSize, 0),
     toPositions |-> ArrayFromLength(groupSize, resultLength + groupSize)]

\* lines 294-300; resultLength is result.length before the group is placed
overhandStep(stepCount, groupSize, resultLength) ==
    [description |-> "Step " \o ToString(stepCount) \o ": Take " \o ToString(groupSize)
                       \o " " \o CardWord(groupSize) \o " from top and place on bottom",
     cardIndices |-> ArrayFromLength(groupSize, 0),
     action |-> "move",
     fromPositions |-> ArrayFromLength(groupSize, 0),
     toPositions |-> ArrayFromLength(groupSize, resultLength)]

\* lines 284-309: the next `turns` iterations of the loop, as far as its
\* condition holds; a run of several iterations is its first half followed
\* by its second half
RECURSIVE overhandStepsLoop(_, _, _, _, _, _, _)
overhandStepsLoop(workingDeck, result, steps, stepCount, r, used, turns) ==
    IF turns <= 0 \/ ~(Len(workingDeck) > 0)
    THEN [workingDeck |-> workingDeck, result |-> result, steps |-> steps,
          stepCount |-> stepCount, used |-> used]
    ELSE IF turns = 1
    THEN LET groupSize == Min(Len(workingDeck), FloorRandomTimes(r[used + 1], 7) + 1)
             group == SubSeq(workingDeck, 1, groupSize)
         IN  [workingDeck |-> SubSeq(workingDeck, groupSize + 1, Len(workingDeck)),
              result |-> group \o result,
              steps |-> Append(steps, overhandStep(stepCount, groupSize, Len(result))),
              stepCount |-> stepCount + 1, used |-> used + 1]
    ELSE LET first == overhandStepsLoop(workingDeck, result, steps, stepCount, r, used,
                                        turns \div 2)
         IN  overhandStepsLoop(first.workingDeck, first.result, first.steps,
                               first.stepCount, r, first.used, turns - turns \div 2)

overhandShuffleSteps(d, r) ==
    LET workingDeck == ArraySpread(d)
        exit == overhandStepsLoop(workingDeck, <<>>, <<>>, 1, r, 0, Len(workingDeck))
    IN  [deck |-> d, workingDeck |-> exit.workingDeck, result |-> exit.result,
         used |-> exit.used, ret |-> exit.steps]

----------------------------------------------------------------------------
(* Hindu: deckUtils.ts lines 318-382 *)

\* lines 322-334: the next `turns` iterations of the loop, as far as its
\* condition holds; splice(-packetSize, packetSize) takes the packet off the
\* back of shuffledDeck, push puts it at the back of result.  Every
\* iteration takes a card or more, so the loop is over after as many
\* iterations as the deck has cards; a run of several iterations is its
\* first half followed by its second half.
RECURSIVE hinduLoop(_, _, _, _, _)
hinduLoop(shuffledDeck, result, r, used, turns) ==
    IF turns <= 0 \/ ~(Len(shuffledDeck) > 0)
    THEN [shuffledDeck |-> shuffledDeck, result |-> result, used |-> used]
    ELSE IF turns = 1
    THEN LET packetSize == Min(Len(shuffledDeck), FloorRandomTimes(r[used + 1], 6) + 1)
             packet == SubSeq(shuffledDeck, Len(shuffledDeck) - packetSize + 1,
                              Len(shuffledDeck))
         IN  [shuffledDeck |-> SubSeq(shuffledDeck, 1, Len(shuffledDeck) - packetSize),
              result |-> result \o packet, used |-> used + 1]
    ELSE LET first == hinduLoop(shuffledDeck, result, r, used, turns \div 2)
         IN  hinduLoop(first.shuffledDeck, first.result, r, first.used,
                       turns - turns \div 2)

\* the mutant of hinduShuffle: returns the cards in the order received
hinduShuffleKeepsOrder(d, r) ==
    LET shuffledDeck == ArraySpread(d)
        exit == hinduLoop(shuffledDeck, <<>>, r, 0, Len(shuffledDeck))
    IN  [deck |-> d, shuffledDeck |-> exit.shuffledDeck,
         used |-> exit.used, ret |-> Renumbered(shuffledDeck)]

hinduShuffle(d, r) ==
    LET shuffledDeck == ArraySpread(d)
        exit == hinduLoop(shuffledDeck, <<>>, r, 0, Len(shuffledDeck))
    IN  [deck |-> d, shuffledDeck |-> exit.shuffledDeck,
         used |-> exit.used, ret |-> Renumbered(exit.result)]

\* the mutant of hinduStep: records the leading indices as the packet
hinduStepFromFront(stepCount, packetSize, workingLength, resultLength) ==
    [description |-> "Step " \o ToString(stepCount) \o ": Pull " \o ToString(packetSize)
                       \o " " \o CardWord(packetSize) \o " from bottom and drop on top",
     cardIndices |-> ArrayFromLength(packetSize, 0),
     action |-> "move",
     fromPositions |-> ArrayFromLength(packetSize, 0),
     toPositions |-> ArrayFromLength(packetSize, resultLength)]

\* lines 364-370; workingLength is workingDeck.length and resultLength is
\* result.length, both before the packet is taken
hinduStep(stepCount, packetSize, workingLength, resultLength) ==
    [description |-> "Step " \o ToString(stepCount) \o ": Pull " \o ToString(packetSize)
                       \o " " \o CardWord(packetSize) \o " from bottom and drop on top",
     cardIndices |-> ArrayFromLength(packetSize, workingLength - packetSize),
     action |-> "move",
     fromPositions |-> ArrayFromLength(packetSize, workingLength - packetSize),
     toPositions |-> ArrayFromLength(packetSize, resultLength)]

\* lines 354-379: the next `turns` iterations of the loop, as far as its
\* condition holds; a run of several iterations is its first half followed
\* by its second half
RECURSIVE hinduStepsLoop(_, _, _, _, _, _, _)
hinduStepsLoop(workingDeck, result, steps, stepCount, r, used, turns) ==
    IF turns <= 0 \/ ~(Len(workingDeck) > 0)
    THEN [workingDeck |-> workingDeck, result |-> result, steps |-> steps,
          stepCount |-> stepCount, used |-> used]
    ELSE IF turns = 1
    THEN LET packetSize == Min(Len(workingDeck), FloorRandomTimes(r[used + 1], 6) + 1)
             packet == SubSeq(workingDeck, Len(workingDeck) - packetSize + 1,
                              Len(workingDeck))
         IN  [workingDeck |-> SubSeq(workingDeck, 1, Len(workingDeck) - packetSize),
              result |-> result \o packet,
              steps |-> Append(steps, hinduStep(stepCount, packetSize,
                                                Len(workingDeck), Len(result))),
              stepCount |-> stepCount + 1, used |-> used + 1]
    ELSE LET first == hinduStepsLoop(workingDeck, result, steps, stepCount, r, used,
                                     turns \div 2)
         IN  hinduStepsLoop(first.workingDeck, first.result, first.steps,
                            first.stepCount, r, first.used, turns - turns \div 2)

\* the mutant of hinduShuffleSteps: the loop first draws once without taking
\* a packet
hinduShuffleStepsIdleDraw(d, r) ==
    LET workingDeck == ArraySpread(d)
        exit == hinduStepsLoop(workingDeck, <<>>, <<>>, 1, <<r[1]>> \o r, 1,
                               Len(workingDeck))
    IN  [deck |-> d, workingDeck |-> exit.workingDeck, result |-> exit.result,
         used |-> exit.used, ret |-> exit.steps]

hinduShuffleSteps(d, r) ==
    LET workingDeck == ArraySpread(d)
        exit == hinduStepsLoop(workingDeck, <<>>, <<>>, 1, r, 0, Len(workingDeck))
    IN  [deck |-> d, workingDeck |-> exit.workingDeck, result |-> exit.result,
         used |-> exit.used, ret |-> exit.steps]

\* lines 387-416: the names of SHUFFLE_ALGORITHMS, in order
SHUFFLE_ALGORITHMS == <<"Fisher-Yates", "Riffle Shuffle", "Overhand Shuffle", "Hindu Shuffle">>

----------------------------------------------------------------------------
(* Calls of the exported functions on bounded inputs: specification Spec *)

\* the first n cards of the ordered deck, as createOrderedDeck leaves them
FreshDeck(n) == SubSeq(createOrderedDeck, 1, n)

\* the same n cards in reverse order, each still carrying the position it
\* had in the ordered deck, every other one highlighted
StaleDeck(n) ==
    [k \in 1..n |-> CardWith(createOrderedDeck[n + 1 - k], n - k, k % 2 = 1)]

InputDecks == {FreshDeck(n) : n \in 0..MaxN} \cup {StaleDeck(n) : n \in 0..MaxN}

\* the draw traces offered to a call on n cards: no function draws more
\* than Max(n, 1) times; the deckUtils functions are followed on decks of
\* up to MaxN cards
Traces(n) == IF n > MaxN THEN {} ELSE [1..Max(n, 1) -> 0..(RandDenom - 1)]

\* the draw traces offered to overhandShuffle and hinduShuffle on a deck of
\* more than MaxN cards: every draw is the lowest or the highest value, which
\* asks for a group of one card or of the largest size
LongTraces(n) == IF n > MaxN THEN [1..n -> {0, RandDenom - 1}] ELSE {}

\* the records offered to applyShuffleStep on n cards: every action, with
\* zero to two indices from one before the array to two past its last card
StepIndices(n) ==
    {<<>>} \cup {<<i>> : i \in -1..(n + 1)}
           \cup {<<i, j>> : i \in -1..(n + 1), j \in -1..(n + 1)}

Reversed(s) == [k \in 1..Len(s) |-> s[Len(s) + 1 - k]]

StepInputs(n) ==
    {[description |-> "", cardIndices |-> c, action |-> a,
      fromPositions |-> c, toPositions |-> Reversed(c)] :
        a \in {"swap", "move", "split", "merge"}, c \in StepIndices(n)}

NoStep == [description |-> "", cardIndices |-> <<>>, action |-> "none",
           fromPositions |-> <<>>, toPositions |-> <<>>]
NoResult == [deck |-> <<>>, ret |-> <<>>]

Called(name, r, s, out) ==
    /\ op = "none"
    /\ Len(arg) <= MaxN \/ name \in {"overhandShuffle", "hinduShuffle"}
    /\ op' = name
    /\ rnd' = r
    /\ step' = s
    /\ res' = out
    /\ arg' = out.deck
    /\ UNCHANGED <<arg0, arg2, fed, appVars>>

CallFisherYatesShuffle ==
    /\ op = "none"
    /\ \E r \in Traces(Len(arg)) :
          Called("fisherYatesShuffle", r, NoStep, fisherYatesShuffle(arg, r))
CallFisherYatesShuffleSteps ==
    /\ op = "none"
    /\ \E r \in Traces(Len(arg)) :
          Called("fisherYatesShuffleSteps", r, NoStep, fisherYatesShuffleSteps(arg, r))
CallRiffleShuffle ==
    /\ op = "none"
    /\ \E r \in Traces(Len(arg)) :
          Called("riffleShuffle", r, NoStep, riffleShuffle(arg, r))
CallRiffleShuffleSteps ==
    /\ op = "none"
    /\ \E r \in Traces(Len(arg)) :
          Called("riffleShuffleSteps", r, NoStep, riffleShuffleSteps(arg, r))
CallOverhandShuffle ==
    /\ op = "none"
    /\ \E r \in Traces(Len(arg)) \cup LongTraces(Len(arg)) :
          Called("overhandShuffle", r, NoStep, overhandShuffle(arg, r))
CallOverhandShuffleSteps ==
    /\ op = "none"
    /\ \E r \in Traces(Len(arg)) :
          Called("overhandShuffleSteps", r, NoStep, overhandShuffleSteps(arg, r))
CallHinduShuffle ==
    /\ op = "none"
    /\ \E r \in Traces(Len(arg)) \cup LongTraces(Len(arg)) :
          Called("hinduShuffle", r, NoStep, hinduShuffle(arg, r))
CallHinduShuffleSteps ==
    /\ op = "none"
    /\ \E r \in Traces(Len(arg)) :
          Called("hinduShuffleSteps", r, NoStep, hinduShuffleSteps(arg, r))
CallApplyShuffleStep ==
    /\ op = "none"
    /\ \E s \in StepInputs(Len(arg)) :
          Called("applyShuffleStep", <<>>, s, applyShuffleStep(arg, s))
\* createOrderedDeck takes no argument; it is called once or twice in a row,
\* and the second call keeps what the first returned as `first`
CallCreateOrderedDeck ==
    /\ arg = <<>>
    /\ \/ /\ op = "none"
          /\ res' = [deck |-> <<>>, ret |-> createOrderedDeck]
       \/ /\ op = "createOrderedDeck"
          /\ "first" \notin DOMAIN res
          /\ res' = [deck |-> <<>>, first |-> res.ret, ret |-> createOrderedDeck]
    /\ op' = "createOrderedDeck"
    /\ UNCHANGED <<arg, arg0, arg2, rnd, step, fed, appVars>>

CallResetDeck == Called("resetDeck", <<>>, NoStep, resetDeck(arg))
CallClearHighlights == Called("clearHighlights", <<>>, NoStep, clearHighlights(arg))

----------------------------------------------------------------------------
(* Statistics: statisticsUtils, src/src/types/shuffle.ts lines 43-209 *)

\* Math.round(num / den) for den > 0: the nearest integer, halves upwards
MathRound(num, den) == (2 * num + den) \div (2 * den)

\* a JavaScript number that may be NaN: the number n, and NaN, which
\* Math.round returns for 0 / 0 and every operation on NaN returns
Num(n) == [nan |-> FALSE, value |-> n]
NaN == [nan |-> TRUE]

\* |a - b|
Abs(a) == IF a < 0 THEN -a ELSE a

\* ---- natural numbers of any size ----
\* JavaScript numbers are IEEE 754 binary64 values; their 53-bit significands
\* and the 106-bit products of two of them are kept as sequences of limbs,
\* least significant first, each limb below LimbBase.

LimbBits == 14
LimbBase == 2^LimbBits

Limb(a, k) == IF k <= Len(a) THEN a[k] ELSE 0

RECURSIVE BigTrim(_)
BigTrim(a) ==
    IF a # <<>> /\ a[Len(a)] = 0 THEN BigTrim(SubSeq(a, 1, Len(a) - 1)) ELSE a

RECURSIVE BigFromInt(_)
BigFromInt(n) ==
    IF n = 0 THEN <<>> ELSE <<n % LimbBase>> \o BigFromInt(n \div LimbBase)

\* for values below 2^31
RECURSIVE BigToInt(_)
BigToInt(a) == IF a = <<>> THEN 0 ELSE a[1] + LimbBase * BigToInt(Tail(a))

RECURSIVE BigAddFrom(_, _, _, _)
BigAddFrom(a, b, k, carry) ==
    IF k > Len(a) /\ k > Len(b) THEN BigFromInt(carry)
    ELSE LET s == Limb(a, k) + Limb(b, k) + carry
         IN  <<s % LimbBase>> \o BigAddFrom(a, b, k + 1, s \div LimbBase)

BigAdd(a, b) == BigAddFrom(a, b, 1, 0)

\* a * n for 0 <= n < 2^16
RECURSIVE BigMulSmallFrom(_, _, _, _)
BigMulSmallFrom(a, n, k, carry) ==
    IF k > Len(a) THEN BigFromInt(carry)
    ELSE LET p == a[k] * n + carry
         IN  <<p % LimbBase>> \o BigMulSmallFrom(a, n, k + 1, p \div LimbBase)

BigMulSmall(a, n) == BigMulSmallFrom(a, n, 1, 0)

\* a * LimbBase^k
BigShiftLimbs(a, k) == [i \in 1..k |-> 0] \o a

RECURSIVE BigMulFrom(_, _, _)
BigMulFrom(a, b, k) ==
    IF k > Len(b) THEN <<>>
    ELSE BigAdd(BigShiftLimbs(BigMulSmall(a, b[k]), k - 1), BigMulFrom(a, b, k + 1))

BigMul(a, b) == BigTrim(BigMulFrom(a, b, 1))

\* quotient and remainder of a by n, 0 < n < 2^16: long division from the
\* most significant limb k down
RECURSIVE BigDivSmallFrom(_, _, _, _)
BigDivSmallFrom(a, n, k, rem) ==
    IF k = 0 THEN [q |-> <<>>, r |-> rem]
    ELSE LET cur == rem * LimbBase + a[k]
             rest == BigDivSmallFrom(a, n, k - 1, cur % n)
         IN  [q |-> Append(rest.q, cur \div n), r |-> rest.r]

\* the quotient without leading zero limbs
BigTrimQuotient(d) == [q |-> BigTrim(d.q), r |-> d.r]

BigDivSmall(a, n) == BigTrimQuotient(BigDivSmallFrom(a, n, Len(a), 0))

\* the number of bits of a limb: the least b with x < 2^b
BitLenOfLimb(x) == CHOOSE b \in 0..LimbBits : x < 2^b /\ (b = 0 \/ 2^(b - 1) <= x)

\* the number of bits of a trimmed t
BigBitLenTrimmed(t) ==
    IF t = <<>> THEN 0 ELSE (Len(t) - 1) * LimbBits + BitLenOfLimb(t[Len(t)])

BigBitLen(a) == BigBitLenTrimmed(BigTrim(a))

\* a * 2^k
BigShiftLeft(a, k) ==
    BigTrim(BigShiftLimbs(BigMulSmall(a, 2^(k % LimbBits)), k \div LimbBits))

\* a div 2^k, and whether a 1 bit was shifted out
BigShiftRightLimbs(a, k, limbs, d) ==
    [q |-> d.q, lost |-> d.r # 0 \/ \E i \in 1..limbs : a[i] # 0]

BigShiftRight(a, k) ==
    BigShiftRightLimbs(a, k, Min(k \div LimbBits, Len(a)),
        BigDivSmall(SubSeq(a, Min(k \div LimbBits, Len(a)) + 1, Len(a)),
                    2^(k % LimbBits)))

\* a < b for trimmed a and b
RECURSIVE BigLessFrom(_, _, _)
BigLessFrom(a, b, k) ==
    IF k = 0 THEN FALSE
    ELSE IF a[k] # b[k] THEN a[k] < b[k]
    ELSE BigLessFrom(a, b, k - 1)

BigLess(a, b) ==
    IF Len(a) # Len(b) THEN Len(a) < Len(b) ELSE BigLessFrom(a, b, Len(a))

\* ---- finite binary64 values >= 0 ----
\* [m, e] is m * 2^e; m is <<>> for 0 and has exactly MantissaBits bits
\* otherwise.  The values of statisticsUtils lie between 2^-20 and 2^7, so
\* subnormal numbers, infinities and signs do not occur.

MantissaBits == 53

FloatZero == [m |-> <<>>, e |-> 0]

\* the binary64 value nearest to (M + f) * 2^E, ties to the even
\* significand; f is a fraction in [0, 1) that is not 0 exactly if sticky.
\* Callers pass a sticky fraction only with M of more than MantissaBits bits.
\* r * 2^E with r rounded to MantissaBits bits, or to one more when the
\* rounding carried into a further bit
RoundCarried(r, E) ==
    IF BigBitLen(r) > MantissaBits
    THEN [m |-> BigDivSmall(r, 2).q, e |-> E + 1]
    ELSE [m |-> r, e |-> E]

\* half.q is the significand cut to MantissaBits bits, half.r the guard bit
\* below it, rest whether anything lies below the guard bit: up when the
\* guard bit is set and either something follows or the significand is odd
RoundHalfEven(half, rest, E) ==
    RoundCarried(IF half.r = 1 /\ (rest \/ Limb(half.q, 1) % 2 = 1)
                 THEN BigTrim(BigAdd(half.q, <<1>>)) ELSE half.q,
                 E)

\* t is M without the bits below the guard bit
RoundShifted(t, E, sticky) == RoundHalfEven(BigDivSmall(t.q, 2), t.lost \/ sticky, E)

\* M has L bits
RoundBits(M, E, sticky, L) ==
    IF L = 0 THEN FloatZero
    ELSE IF L <= MantissaBits
    THEN [m |-> BigShiftLeft(M, MantissaBits - L), e |-> E - (MantissaBits - L)]
    ELSE RoundShifted(BigShiftRight(M, L - MantissaBits - 1), E + (L - MantissaBits), sticky)

RoundToDouble(M, E, sticky) == RoundBits(M, E, sticky, BigBitLen(M))

\* the number n >= 0 as a binary64 value (exact below 2^31)
FloatFromInt(n) == RoundToDouble(BigFromInt(n), 0, FALSE)

\* x / n for an integer 0 < n < 2^14
FloatQuotient(d, E) == RoundToDouble(d.q, E, d.r # 0)

FloatDivInt(x, n) ==
    IF x.m = <<>> THEN FloatZero
    ELSE FloatQuotient(BigDivSmall(BigShiftLimbs(x.m, 2), n), x.e - 2 * LimbBits)

\* x * 2, exact
FloatTimes2(x) == IF x.m = <<>> THEN FloatZero ELSE [x EXCEPT !.e = @ + 1]

\* x * y
FloatMul(x, y) ==
    IF x.m = <<>> \/ y.m = <<>> THEN FloatZero
    ELSE RoundToDouble(BigMul(x.m, y.m), x.e + y.e, FALSE)

\* hi + lo for hi.e >= lo.e, neither 0
FloatAddOrdered(hi, lo) ==
    IF hi.e - lo.e > MantissaBits + 2 THEN hi
    ELSE RoundToDouble(BigAdd(BigShiftLeft(hi.m, hi.e - lo.e), lo.m), lo.e, FALSE)

\* x + y
FloatAdd(x, y) ==
    IF x.m = <<>> THEN y
    ELSE IF y.m = <<>> THEN x
    ELSE FloatAddOrdered(IF x.e >= y.e THEN x ELSE y, IF x.e >= y.e THEN y ELSE x)

FloatLess(x, y) ==
    IF y.m = <<>> THEN FALSE
    ELSE IF x.m = <<>> THEN TRUE
    ELSE IF x.e # y.e THEN x.e < y.e
    ELSE BigLess(x.m, y.m)

\* Math.min(x, y)
FloatMin(x, y) == IF FloatLess(y, x) THEN y ELSE x

\* Math.round(x) for 0 <= x < 2^30: the integer floor(x + 1/2), exactly
MathRoundFloat(x) ==
    IF x.m = <<>> THEN 0
    ELSE IF x.e >= 0 THEN BigToInt(BigShiftLeft(x.m, x.e))
    ELSE (BigToInt(BigShiftRight(x.m, -x.e - 1).q) + 1) \div 2

\* the number literals of the score expression as the binary64 values the
\* language reads them as (limbs least significant first): 0.6 is
\* 5404319552844595 * 2^-53, 0.4 is 7205759403792794 * 2^-54, 1 is
\* 2^52 * 2^-52 and 100 is 7036874417766400 * 2^-46
Float0_6 == [m |-> <<13107, 3276, 13107, 1228>>, e |-> -53]

Float0_4 == [m |-> <<6554, 9830, 6553, 1638>>, e |-> -54]

Float1 == [m |-> <<0, 0, 0, 1024>>, e |-> -52]

Float100 == [m |-> <<0, 0, 0, 1600>>, e |-> -46]

\* shuffledDeck.findIndex(card => card.id === id): the first index, or -1
FindIndexById(cards, id) ==
    IF \E k \in 1..Len(cards) : HasId(cards[k], id)
    THEN (CHOOSE k \in 1..Len(cards) :
            /\ HasId(cards[k], id)
            /\ \A m \in 1..(k - 1) : ~HasId(cards[m], id)) - 1
    ELSE -1

RECURSIVE DisplacementOneBased(_, _, _)
DisplacementOneBased(original, shuffled, i) ==
    IF i = 0 THEN [displacedCards |-> 0, totalDisplacement |-> 0]
    ELSE LET before == DisplacementOneBased(original, shuffled, i - 1)
             shuffledPosition == FindIndexById(shuffled, IdOf(original[i]))
         IN  IF shuffledPosition # i
             THEN [displacedCards |-> before.displacedCards + 1,
                   totalDisplacement |-> before.totalDisplacement
                                           + Abs(shuffledPosition - i)]
             ELSE before

\* the mutant of Displacement: counts only the cards found further back
RECURSIVE DisplacementTowardsBack(_, _, _)
DisplacementTowardsBack(original, shuffled, i) ==
    IF i = 0 THEN [displacedCards |-> 0, totalDisplacement |-> 0]
    ELSE LET before == DisplacementTowardsBack(original, shuffled, i - 1)
             shuffledPosition == FindIndexById(shuffled, IdOf(original[i]))
         IN  IF shuffledPosition > i - 1
             THEN [displacedCards |-> before.displacedCards + 1,
                   totalDisplacement |-> before.totalDisplacement
                                           + Abs(shuffledPosition - (i - 1))]
             ELSE before

\* lines 58-66: what the iterations of the loop from the value i of the
\* counter up to the value last add to the two counts.  One iteration adds
\* the displacement of one card; a run of several adds what its first half
\* and its second half add.
RECURSIVE DisplacementLoop(_, _, _, _)
DisplacementLoop(original, shuffled, i, last) ==
    IF i > last
    THEN [displacedCards |-> 0, totalDisplacement |-> 0]
    ELSE IF i = last
    THEN LET shuffledPosition == FindIndexById(shuffled, IdOf(original[i + 1]))
         IN  IF shuffledPosition # i
             THEN [displacedCards |-> 1, totalDisplacement |-> Abs(shuffledPosition - i)]
             ELSE [displacedCards |-> 0, totalDisplacement |-> 0]
    ELSE LET middle == (i + last) \div 2
             first == DisplacementLoop(original, shuffled, i, middle)
             second == DisplacementLoop(original, shuffled, middle + 1, last)
         IN  [displacedCards |-> first.displacedCards + second.displacedCards,
              totalDisplacement |-> first.totalDisplacement + second.totalDisplacement]

\* lines 54-66: displacedCards and totalDisplacement after the first i cards
Displacement(original, shuffled, i) == DisplacementLoop(original, shuffled, 0, i - 1)

\* lines 70-77, computed in binary64 as the code computes it, operation by
\* operation: (c / n * 0.6 + min((t / n) / (n / 2), 1) * 0.4) * 100, rounded
\* by Math.round.  n / 2 is exact, so dividing by it is dividing by n and
\* doubling.
RandomnessScore(displacedCards, totalDisplacement, n) ==
    LET displacementRatio == FloatDivInt(FloatFromInt(displacedCards), n)
        averageDisplacement == FloatDivInt(FloatFromInt(totalDisplacement), n)
        normalizedDisplacement ==
            FloatMin(FloatTimes2(FloatDivInt(averageDisplacement, n)), Float1)
    IN  MathRoundFloat(
            FloatMul(FloatAdd(FloatMul(displacementRatio, Float0_6),
                              FloatMul(normalizedDisplacement, Float0_4)),
                     Float100))

\* lines 70-77 on the counts d of the loop
ScoreOf(d, n) == Num(RandomnessScore(d.displacedCards, d.totalDisplacement, n))

\* lines 49-78; with no cards both ratios are 0 / 0 and the result is NaN
calculateRandomnessMetrics(original, shuffled) ==
    IF Len(original) # Len(shuffled) THEN Num(0)
    ELSE IF Len(original) = 0 THEN NaN
    ELSE ScoreOf(Displacement(original, shuffled, Len(original)), Len(original))

\* lines 169-177
initializeAlgorithmStatistics(algorithmName) ==
    [algorithmName |-> algorithmName,
     shuffleCount |-> 0,
     averageSteps |-> 0,
     randomnessScore |-> Num(0),
     executionTimes |-> <<>>]

updateAlgorithmStatisticsPrepends(currentStats, original, shuffled, executionTime, stepCount) ==
    [currentStats EXCEPT
        !.shuffleCount = @ + 1,
        !.executionTimes = <<executionTime>> \o @]

\* lines 146-163: the record with the score of this shuffle merged in
MergedStatistics(currentStats, randomnessScore, executionTime, stepCount) ==
    LET newShuffleCount == currentStats.shuffleCount + 1
        newExecutionTimes == Append(currentStats.executionTimes, executionTime)
        totalSteps == currentStats.averageSteps * currentStats.shuffleCount + stepCount
        newAverageSteps == MathRound(totalSteps, newShuffleCount)
    IN  [currentStats EXCEPT
            !.shuffleCount = newShuffleCount,
            !.averageSteps = newAverageSteps,
            !.randomnessScore =
                IF currentStats.randomnessScore.nan \/ randomnessScore.nan THEN NaN
                ELSE Num(MathRound(currentStats.randomnessScore.value
                                     * currentStats.shuffleCount + randomnessScore.value,
                                   newShuffleCount)),
            !.executionTimes = newExecutionTimes]

\* lines 140-164
updateAlgorithmStatistics(currentStats, original, shuffled, executionTime, stepCount) ==
    MergedStatistics(currentStats, calculateRandomnessMetrics(original, shuffled),
                     executionTime, stepCount)

\* lines 101-112: positions.get(card.id) || 0, the last index of the
\* shuffled deck that holds the id, 0 when none does
PositionOfId(shuffled, id) ==
    IF \E k \in 1..Len(shuffled) : IdOf(shuffled[k]) = id
    THEN (CHOOSE k \in 1..Len(shuffled) :
            /\ IdOf(shuffled[k]) = id
            /\ \A m \in (k + 1)..Len(shuffled) : IdOf(shuffled[m]) # id) - 1
    ELSE 0

\* lines 109-113
Differences(original, shuffled) ==
    [k \in 1..Len(original) |->
        Abs(PositionOfId(shuffled, IdOf(original[k])) - (k - 1))]

\* Math.max(...differences) on at least one number
MaxOf(numbers) ==
    CHOOSE x \in {numbers[k] : k \in 1..Len(numbers)} :
        \A k \in 1..Len(numbers) : numbers[k] <= x

\* lines 119-120: buckets[diff] counts the differences equal to diff
Buckets(differences, maxDifference) ==
    [b \in 1..(maxDifference + 1) |->
        Cardinality({k \in 1..Len(differences) : differences[k] = b - 1})]

\* lines 122-134: (entropy / maxEntropy) * 100 with entropy the sum of
\* -p log2 p over the non-empty buckets and maxEntropy = log2(buckets.length).
\* With one non-empty bucket p = 1 and the value is 0; otherwise it is a
\* number in (0, 100] that is kept as the histogram it is computed from.
NormalizedEntropy(buckets) ==
    IF Cardinality({b \in 1..Len(buckets) : buckets[b] > 0}) = 1
    THEN Num(0)
    ELSE [nan |-> FALSE, entropyOf |-> buckets]

\* lines 100-135.  With no original cards Math.max() is -Infinity and
\* new Array(-Infinity + 1) throws a RangeError.
calculateEntropy(original, shuffled) ==
    LET differences == Differences(original, shuffled)
    IN  IF differences = <<>>
        THEN [threw |-> TRUE, error |-> "RangeError: Invalid array length"]
        ELSE LET maxDifference == MaxOf(differences)
             IN  IF maxDifference = 0 THEN [threw |-> FALSE, ret |-> Num(0)]
                 ELSE [threw |-> FALSE,
                       ret |-> NormalizedEntropy(Buckets(differences, maxDifference))]

RECURSIVE SumOf(_)
SumOf(numbers) == IF numbers = <<>> THEN 0 ELSE Head(numbers) + SumOf(Tail(numbers))

\* lines 182-186
getAverageExecutionTime(stats) ==
    IF Len(stats.executionTimes) = 0 THEN 0
    ELSE MathRound(SumOf(stats.executionTimes), Len(stats.executionTimes))

\* a > b on JavaScript numbers: false when either is NaN
NumGreater(a, b) == ~a.nan /\ ~b.nan /\ a.value > b.value

compareAlgorithmsFirstWins(stats1, stats2) ==
    [randomnessComparison |-> [winner |-> stats1.algorithmName],
     speedComparison |-> [winner |-> stats1.algorithmName],
     stepComparison |-> [winner |-> stats1.algorithmName]]

\* lines 191-209
compareAlgorithms(stats1, stats2) ==
    [randomnessComparison |->
        [algorithm1 |-> [name |-> stats1.algorithmName, score |-> stats1.randomnessScore],
         algorithm2 |-> [name |-> stats2.algorithmName, score |-> stats2.randomnessScore],
         winner |-> IF NumGreater(stats1.randomnessScore, stats2.randomnessScore)
                    THEN stats1.algorithmName ELSE stats2.algorithmName],
     speedComparison |->
        [algorithm1 |-> [name |-> stats1.algorithmName,
                         avgTime |-> getAverageExecutionTime(stats1)],
         algorithm2 |-> [name |-> stats2.algorithmName,
                         avgTime |-> getAverageExecutionTime(stats2)],
         winner |-> IF getAverageExecutionTime(stats1) < getAverageExecutionTime(stats2)
                    THEN stats1.algorithmName ELSE stats2.algorithmName],
     stepComparison |->
        [algorithm1 |-> [name |-> stats1.algorithmName, avgSteps |-> stats1.averageSteps],
         algorithm2 |-> [name |-> stats2.algorithmName, avgSteps |-> stats2.averageSteps],
         winner |-> IF stats1.averageSteps < stats2.averageSteps
                    THEN stats1.algorithmName ELSE stats2.algorithmName]]

----------------------------------------------------------------------------
(* Calls of the statistics functions *)

\* largest deck passed to the scoring functions
ScoreN == 8
\* longest chain of updateAlgorithmStatistics calls on one record
MaxUpdates == 3

\* d with the cards at the 1-based places i and j exchanged, renumbered as
\* the bulk shuffles renumber their output
Exchanged(d, i, j) ==
    Renumbered([k \in 1..Len(d) |-> IF k = i THEN d[j] ELSE IF k = j THEN d[i] ELSE d[k]])

SwapsOf(d) == {Exchanged(d, i, j) : i \in 1..Len(d), j \in 1..Len(d)} \cup {d}

\* d with the card at place i taken out and put back at place j
Moved(d, i, j) ==
    Renumbered([k \in 1..Len(d) |->
        IF k = j THEN d[i]
        ELSE IF i < j /\ k >= i /\ k < j THEN d[k + 1]
        ELSE IF j < i /\ k > j /\ k <= i THEN d[k - 1]
        ELSE d[k]])

MovesOf(d) == {Moved(d, i, j) : i \in 1..Len(d), j \in 1..Len(d)}

\* decks of another length than d
OtherLengthsOf(d) ==
    {x \in {FreshDeck(n) : n \in 0..MaxN} \cup {Renumbered(Reversed(FreshDeck(n))) : n \in 0..MaxN} :
        Len(x) # Len(d)}

ScoreDecks == {FreshDeck(n) : n \in 0..ScoreN}
ShuffledDecks(d) ==
    SwapsOf(d) \cup MovesOf(d) \cup {Renumbered(Reversed(d))} \cup OtherLengthsOf(d)

\* the arguments offered to updateAlgorithmStatistics
UpdateNames == {SHUFFLE_ALGORITHMS[1], SHUFFLE_ALGORITHMS[2]}
UpdateDeck == FreshDeck(2)
StepCounts == {0, 1}

\* the records offered to compareAlgorithms
CompareInputs ==
    {[algorithmName |-> name, shuffleCount |-> Len(times), averageSteps |-> steps,
      randomnessScore |-> Num(score), executionTimes |-> times] :
        name \in UpdateNames, steps \in {3, 5}, score \in {70, 90},
        times \in {<<>>, <<1>>, <<1, 2>>, <<2>>}}

CallCalculateRandomnessMetrics ==
    \E s \in ShuffledDecks(arg) :
        /\ op = "none"
        /\ arg \in ScoreDecks
        /\ op' = "calculateRandomnessMetrics"
        /\ arg2' = s
        /\ res' = [threw |-> FALSE, ret |-> calculateRandomnessMetrics(arg, s)]
        /\ UNCHANGED <<arg, arg0, rnd, step, fed, appVars>>

CallCalculateEntropy ==
    \E s \in ShuffledDecks(arg) :
        /\ op = "none"
        /\ arg \in ScoreDecks
        /\ op' = "calculateEntropy"
        /\ arg2' = s
        /\ res' = calculateEntropy(arg, s)
        /\ UNCHANGED <<arg, arg0, rnd, step, fed, appVars>>

\* calls that take no deck are made from the initial state without one
CallInitializeAlgorithmStatistics ==
    \E name \in UpdateNames :
        /\ op = "none"
        /\ arg = <<>>
        /\ op' = "initializeAlgorithmStatistics"
        /\ res' = [ret |-> initializeAlgorithmStatistics(name)]
        /\ UNCHANGED <<arg, arg0, arg2, rnd, step, fed, appVars>>

\* the record the last call returned is passed as currentStats
CallUpdateAlgorithmStatistics ==
    \E s \in SwapsOf(UpdateDeck), executionTime \in {0, 1}, stepCount \in StepCounts :
        /\ op \in {"initializeAlgorithmStatistics", "updateAlgorithmStatistics"}
        /\ Len(fed) < MaxUpdates
        /\ op' = "updateAlgorithmStatistics"
        /\ arg0' = UpdateDeck
        /\ arg' = UpdateDeck
        /\ arg2' = s
        /\ fed' = Append(fed, [currentStats |-> res.ret, executionTime |-> executionTime,
                               stepCount |-> stepCount])
        /\ res' = [currentStats |-> res.ret,
                   ret |-> updateAlgorithmStatistics(res.ret, UpdateDeck, s,
                                                     executionTime, stepCount)]
        /\ UNCHANGED <<rnd, step, appVars>>

CallCompareAlgorithms ==
    \E stats1 \in CompareInputs, stats2 \in CompareInputs :
        /\ op = "none"
        /\ arg = <<>>
        /\ op' = "compareAlgorithms"
        /\ res' = [stats1 |-> stats1, stats2 |-> stats2,
                   ret |-> compareAlgorithms(stats1, stats2)]
        /\ UNCHANGED <<arg, arg0, arg2, rnd, step, fed, appVars>>

Next ==
    \/ CallFisherYatesShuffle
    \/ CallFisherYatesShuffleSteps
    \/ CallRiffleShuffle
    \/ CallRiffleShuffleSteps
    \/ CallOverhandShuffle
    \/ CallOverhandShuffleSteps
    \/ CallHinduShuffle
    \/ CallHinduShuffleSteps
    \/ CallApplyShuffleStep
    \/ CallCreateOrderedDeck
    \/ CallResetDeck
    \/ CallClearHighlights
    \/ CallCalculateRandomnessMetrics
    \/ CallCalculateEntropy
    \/ CallInitializeAlgorithmStatistics
    \/ CallUpdateAlgorithmStatistics
    \/ CallCompareAlgorithms

----------------------------------------------------------------------------
(* The App component: src/unnamed/part_001 *)

\* the shuffles one statistics record is followed up to
MaxShuffles == 2

\* the timers (setInterval and setTimeout together) the model lets the
\* component create
MaxTimers == 4

\* the user actions the model follows in one run of the component
MaxPresses == 5

\* the runs of interval callbacks the model follows in one run of the
\* component
MaxTicks == 9

\* the updates of timer callbacks that wait for a render of React before
\* the model lets a further timer callback run
MaxQueued == 2

\* endTime - startTime of handleShuffle, in whole milliseconds
ExecutionTimes == {0}

\* a JavaScript number that need not be whole: the fraction num / den in
\* lowest terms
Fraction(num, den) == [num |-> num, den |-> den]

\* lines 518, 526 and 534: the speeds 0.5, 1 and 2 of the Slow, Medium and
\* Fast buttons; the speed only sets the delay of the interval
Speeds == {Fraction(1, 2), Fraction(1, 1), Fraction(2, 1)}

\* the calls React makes of the updater passed to a state setter when it
\* computes the state in a render: one in a production build, two in a
\* development build under StrictMode (part_002 lines 285-289)
UpdaterCalls == {1, 2}

\* the draws of one shuffle of the component: every Math.random() of the
\* call returns the same value, the lowest or the highest
AppDraws == {0, RandDenom - 1}

\* the draw traces offered to a shuffle of the component on n cards; no
\* function draws more than n + 1 times
AppTraces(n) == {[k \in 1..(n + 1) |-> v] : v \in AppDraws}

\* line 36: new Map()
EmptyMap == << >>

\* map.get(key)
MapGet(map, key) == IF key \in DOMAIN map THEN map[key] ELSE Undefined

\* new Map(map).set(key, value)
MapSet(map, key, value) ==
    [k \in DOMAIN map \cup {key} |-> IF k = key THEN value ELSE map[k]]

\* lines 63-67 and 381-384: a fresh record for every algorithm
InitialStats ==
    [name \in {SHUFFLE_ALGORITHMS[k] : k \in 1..Len(SHUFFLE_ALGORITHMS)} |->
        initializeAlgorithmStatistics(name)]

\* lines 46-52; the value null of animationIntervalRef is modelled as 0,
\* which `if (animationIntervalRef.current)` treats as null
InitialAnimationState ==
    [isPlaying |-> FALSE, isPaused |-> FALSE, speed |-> Fraction(1, 1),
     currentStepIndex |-> -1, highlightedCards |-> <<>>]

\* the shuffleCount of the record of the algorithm, 0 without a record
StatsCount(stats, algorithm) ==
    IF algorithm \in DOMAIN stats THEN stats[algorithm].shuffleCount ELSE 0

\* the shuffles recorded in algorithmStats, over all algorithms
RECURSIVE SumShuffleCount(_, _)
SumShuffleCount(stats, k) ==
    IF k = 0 THEN 0
    ELSE StatsCount(stats, SHUFFLE_ALGORITHMS[k]) + SumShuffleCount(stats, k - 1)

Recorded == SumShuffleCount(algorithmStats, Len(SHUFFLE_ALGORITHMS))

\* lines 76-94: the bulk function the switch selects
ShuffleBy(algorithm, d, r) ==
    CASE algorithm = "Riffle Shuffle" -> riffleShuffle(d, r)
      [] algorithm = "Overhand Shuffle" -> overhandShuffle(d, r)
      [] algorithm = "Hindu Shuffle" -> hinduShuffle(d, r)
      [] OTHER -> fisherYatesShuffle(d, r)

\* lines 76-94 and 133-147: the step recorder the switch selects
StepsBy(algorithm, d, r) ==
    CASE algorithm = "Riffle Shuffle" -> riffleShuffleSteps(d, r)
      [] algorithm = "Overhand Shuffle" -> overhandShuffleSteps(d, r)
      [] algorithm = "Hindu Shuffle" -> hinduShuffleSteps(d, r)
      [] OTHER -> fisherYatesShuffleSteps(d, r)

\* lines 207-209: the iterations of the loop from the value i of the counter
\* up to the value targetStepIndex; a run of several iterations is its first
\* half followed, from the counter value that half leaves, by its second half
RECURSIVE ReplayLoop(_, _, _, _)
ReplayLoop(newDeck, steps, i, targetStepIndex) ==
    IF i > targetStepIndex
    THEN [newDeck |-> newDeck, i |-> i]
    ELSE IF i = targetStepIndex
    THEN [newDeck |-> applyShuffleStep(newDeck, steps[i + 1]).ret, i |-> i + 1]
    ELSE LET first == ReplayLoop(newDeck, steps, i, (i + targetStepIndex) \div 2)
         IN  IF first.i <= targetStepIndex
             THEN ReplayLoop(first.newDeck, steps, first.i, targetStepIndex)
             ELSE first

\* lines 207-209: records 0 .. upTo applied in order
ReplaySteps(d, steps, upTo) == ReplayLoop(d, steps, 0, upTo).newDeck

\* lines 302-305 and 310-313: clearInterval on the handle the ref holds, if
\* it holds one; a timer whose handle the ref does not hold stays live
ClearedIntervals(live, ref) == {t \in live : t.handle # ref}

\* lines 254-295 and 326-371: a timer created by a handler.  setInterval
\* and setTimeout return the next positive number as handle; the callback
\* reads from its closure the values shuffleSteps, selectedAlgorithm,
\* algorithmStats.get(selectedAlgorithm) and originalDeck had in the render
\* the handler belongs to.
NewTimer ==
    [handle |-> lastTimerId + 1, shuffleSteps |-> shuffleSteps,
     selectedAlgorithm |-> selectedAlgorithm,
     currentStats |-> MapGet(algorithmStats, selectedAlgorithm),
     originalDeck |-> originalDeck]

\* shuffle.ts lines 59-60 inside the call of lines 268-274: findIndex hands
\* undefined to `card => card.id === originalCard.id` for an empty or
\* undefined slot it reaches before a match, and reading .id of it throws
ScoreThrows(original, shuffled) ==
    /\ Len(original) = Len(shuffled)
    /\ \E i \in 1..Len(original), k \in 1..Len(shuffled) :
          /\ shuffled[k] = Hole \/ shuffled[k] = Undefined
          /\ \A m \in 1..(k - 1) : ~HasId(shuffled[m], IdOf(original[i]))

\* no shuffle of any algorithm completed
NoneCompleted == [name \in {SHUFFLE_ALGORITHMS[k] : k \in 1..Len(SHUFFLE_ALGORITHMS)} |-> 0]

\* a shuffle of the algorithm completed: counted once Clear All Stats was
\* pressed, up to MaxShuffles + 1, which stands for every larger number
Completed(since, algorithm) ==
    IF since.cleared
    THEN [since EXCEPT !.completed[algorithm] = Min(@ + 1, MaxShuffles + 1)]
    ELSE since

\* the playbacks of the list completed, in order
RECURSIVE CompletedEach(_, _)
CompletedEach(since, algorithms) ==
    IF algorithms = <<>> THEN since
    ELSE CompletedEach(Completed(since, Head(algorithms)), Tail(algorithms))

----------------------------------------------------------------------------
(* State updates.  A call of a state setter queues an update; React applies *)
(* the queued updates of every hook in the order of the calls when it next  *)
(* renders App (react 19.1.0, part_002 lines 221-222).  An update made by   *)
(* an updater function while React renders is applied in the same render,   *)
(* after the updates already queued for its hook.                           *)

\* the values the useState hooks of lines 29-52 returned in the last render:
\* what the handlers of that render read
Hooks ==
    [deck |-> deck, originalDeck |-> originalDeck, isShuffled |-> isShuffled,
     shuffleCount |-> shuffleCount, selectedAlgorithm |-> selectedAlgorithm,
     algorithmStats |-> algorithmStats, shuffleSteps |-> shuffleSteps,
     currentStepIndex |-> currentStepIndex, isStepMode |-> isStepMode,
     stepDeck |-> stepDeck, animationState |-> animationState]

\* a setter called with a value: setDeck(v), setIsShuffled(v), ...
SetTo(hook, value) == [kind |-> "set", hook |-> hook, value |-> value]

\* lines 119, 178, 262 and 338: setShuffleCount(prev => prev + 1)
IncrementShuffleCount == [kind |-> "increment"]

\* lines 110-114, 191-195, 276-280 and 352-356: setAlgorithmStats(prev =>
\* new Map(prev).set(selectedAlgorithm, updatedStats))
SetStats(algorithm, updatedStats) ==
    [kind |-> "stats", algorithm |-> algorithm, updatedStats |-> updatedStats]

\* setAnimationState(prev => ({...prev, ...fields}))
Spread(fields) == [kind |-> "spread", fields |-> fields]

\* lines 306 and 314: the state updates of pauseAnimation and stopAnimation
PausedUpdate == Spread([isPlaying |-> FALSE, isPaused |-> TRUE])
StoppedUpdate == Spread([isPlaying |-> FALSE, isPaused |-> FALSE])

\* lines 249 and 327
PlayingUpdate == Spread([isPlaying |-> TRUE, isPaused |-> FALSE])

\* lines 291 and 366: setStepDeck(prevDeck => applyShuffleStep(prevDeck, step))
ApplyStep(s) == [kind |-> "apply", step |-> s]

\* lines 267-283 and 343-359: setStepDeck(currentDeck => ...) of the interval
\* t, an updater React calls `calls` times
ScoreStepDeck(t, calls) == [kind |-> "score", timer |-> t, calls |-> calls]

\* lines 255-294 and 332-369: setCurrentStepIndex(prevIndex => ...) of the
\* interval t, an updater React calls `calls` times when it renders
AdvanceIndex(t, calls) == [kind |-> "advance", timer |-> t, calls |-> calls]

\* the updates of n calls of an updater that makes the updates s
RECURSIVE Repeated(_, _)
Repeated(s, n) == IF n <= 0 THEN <<>> ELSE s \o Repeated(s, n - 1)

\* lines 260-284 and 336-360: the updates one call of the index updater of
\* the interval t makes past the last record, after stopAnimation has
\* cleared the timer of the ref
CompletionUpdates(t) ==
    <<StoppedUpdate, SetTo("isShuffled", TRUE), IncrementShuffleCount>>
        \o (IF t.currentStats # Undefined
            THEN <<ScoreStepDeck(t, updaterCalls)>>
            ELSE <<>>)

\* {...prev, ...fields}
Spreaded(prev, fields) ==
    [isPlaying |-> IF "isPlaying" \in DOMAIN fields THEN fields.isPlaying ELSE prev.isPlaying,
     isPaused |-> IF "isPaused" \in DOMAIN fields THEN fields.isPaused ELSE prev.isPaused,
     speed |-> IF "speed" \in DOMAIN fields THEN fields.speed ELSE prev.speed,
     currentStepIndex |->
        IF "currentStepIndex" \in DOMAIN fields
        THEN fields.currentStepIndex ELSE prev.currentStepIndex,
     highlightedCards |->
        IF "highlightedCards" \in DOMAIN fields
        THEN fields.highlightedCards ELSE prev.highlightedCards]

\* One queued update applied while React renders App.  r.state holds the
\* values the updates before it give, r.queue the updates still to apply,
\* oldest first; r.ref and r.intervals are animationIntervalRef.current and
\* the live intervals, which the stopAnimation() of an index updater
\* changes while React renders; r.completed lists the algorithms whose
\* playback completed.  The index updater of an interval reads the index
\* the updates before it give and the step list of its closure.  The
\* updates its `calls` calls make join the end of the queue; an updater
\* that was called when the update was dispatched is called once less in
\* the render, and the index it gives is the same.  The statistics updater
\* reads the step deck the updates before it give; a render in which it
\* throws ends the component.
Applied(r) ==
    LET u == Head(r.queue)
        rest == Tail(r.queue)
    IN  CASE u.kind = "set" ->
                [r EXCEPT !.state[u.hook] = u.value, !.queue = rest]
          [] u.kind = "increment" ->
                [r EXCEPT !.state.shuffleCount = @ + 1, !.queue = rest]
          [] u.kind = "stats" ->
                [r EXCEPT !.state.algorithmStats = MapSet(@, u.algorithm, u.updatedStats),
                          !.queue = rest]
          [] u.kind = "spread" ->
                [r EXCEPT !.state.animationState = Spreaded(@, u.fields), !.queue = rest]
          [] u.kind = "apply" ->
                [r EXCEPT !.state.stepDeck = applyShuffleStep(@, u.step).ret, !.queue = rest]
          [] u.kind = "score" ->
                IF u.calls > 0 /\ ScoreThrows(u.timer.originalDeck, r.state.stepDeck)
                THEN [r EXCEPT !.threw = TRUE]
                ELSE [r EXCEPT !.queue =
                        rest \o Repeated(
                            <<SetStats(u.timer.selectedAlgorithm,
                                  updateAlgorithmStatistics(
                                      u.timer.currentStats, u.timer.originalDeck,
                                      r.state.stepDeck, 0, Len(u.timer.shuffleSteps)))>>,
                            u.calls)]
          [] OTHER ->
                IF r.state.currentStepIndex + 1 >= Len(u.timer.shuffleSteps)
                THEN [r EXCEPT
                        !.queue = rest \o Repeated(CompletionUpdates(u.timer), u.calls),
                        !.ref = IF u.calls > 0 THEN 0 ELSE @,
                        !.intervals = IF u.calls > 0 THEN ClearedIntervals(@, r.ref) ELSE @,
                        !.completed = Append(@, u.timer.selectedAlgorithm)]
                ELSE [r EXCEPT
                        !.state.currentStepIndex = @ + 1,
                        !.queue = rest \o Repeated(
                            <<ApplyStep(u.timer.shuffleSteps[r.state.currentStepIndex + 2])>>,
                            u.calls)]

\* One render of App: the updates of r.queue applied oldest first until
\* none is left, in at most `turns` applications; a run of several is its
\* first half followed by its second half.
RECURSIVE Rendered(_, _)
Rendered(r, turns) ==
    IF turns <= 0 \/ r.queue = <<>> \/ r.threw
    THEN r
    ELSE IF turns = 1
    THEN Applied(r)
    ELSE LET first == Rendered(r, turns \div 2)
         IN  Rendered(first, turns - turns \div 2)

\* The state React starts a render from.  Every queued update is applied in
\* one turn; an index updater makes at most 4 updates in each of its at
\* most 2 calls, of which the statistics updater makes one more in each of
\* its calls, so 13 turns for each update of the queue end the render.
RenderStart(queue, ref, live) ==
    [state |-> Hooks, queue |-> queue, ref |-> ref, intervals |-> live,
     completed |-> <<>>, threw |-> FALSE]

\* lines 29-52: React commits the render `out`; the useState hooks return
\* its values from now on.  since is the history of completed shuffles
\* before this render.
Committed(out, since) ==
    /\ ~out.threw
    /\ SumShuffleCount(out.state.algorithmStats, Len(SHUFFLE_ALGORITHMS)) <= MaxShuffles
    /\ deck' = out.state.deck
    /\ originalDeck' = out.state.originalDeck
    /\ isShuffled' = out.state.isShuffled
    /\ shuffleCount' = out.state.shuffleCount
    /\ selectedAlgorithm' = out.state.selectedAlgorithm
    /\ algorithmStats' = out.state.algorithmStats
    /\ shuffleSteps' = out.state.shuffleSteps
    /\ currentStepIndex' = out.state.currentStepIndex
    /\ isStepMode' = out.state.isStepMode
    /\ stepDeck' = out.state.stepDeck
    /\ animationState' = out.state.animationState
    /\ animationIntervalRef' = out.ref
    /\ intervals' = out.intervals
    /\ sinceClear' = CompletedEach(since, out.completed)
    /\ pending' = <<>>

\* React renders App with the updates of the queue and commits the result;
\* ref and live are the ref and the intervals as the handlers left them
Commit(queue, ref, live, since) ==
    Committed(Rendered(RenderStart(queue, ref, live), 13 * Len(queue)), since)

\* lines 56-68: the updates of one run of the mount effect
MountUpdates ==
    <<SetTo("deck", createOrderedDeck), SetTo("originalDeck", createOrderedDeck),
      SetTo("algorithmStats", InitialStats)>>

\* lines 29-54: the state of the first render, before the mount effect
AppStart ==
    /\ deck = <<>>
    /\ originalDeck = <<>>
    /\ isShuffled = FALSE
    /\ shuffleCount = 0
    /\ selectedAlgorithm = "Fisher-Yates"
    /\ algorithmStats = EmptyMap
    /\ shuffleSteps = <<>>
    /\ currentStepIndex = -1
    /\ isStepMode = FALSE
    /\ stepDeck = <<>>
    /\ animationState = InitialAnimationState
    /\ animationIntervalRef = 0
    /\ pending = <<>>
    /\ effectRan = FALSE
    /\ intervals = {}
    /\ timeouts = <<>>
    /\ lastTimerId = 0
    /\ haltPressed = FALSE
    /\ countAtStepEntry = 0
    /\ recordedFrom = <<>>
    /\ sinceClear = [cleared |-> FALSE, completed |-> NoneCompleted]
    /\ presses = 0
    /\ ticks = 0

\* lines 56-68: the mount effect runs in a task of its own after the first
\* render, twice in a development build under StrictMode; React renders its
\* updates in a later task
mountEffect ==
    /\ ~effectRan
    /\ effectRan' = TRUE
    /\ pending' = pending \o Repeated(MountUpdates, updaterCalls)
    /\ UNCHANGED <<callVars, hookVars, timerVars, updaterCalls, historyVars>>

\* React renders the updates queued by the mount effect and by timer
\* callbacks, in a task of its own
render ==
    /\ pending # <<>>
    /\ Commit(pending, animationIntervalRef, intervals, sinceClear)
    /\ UNCHANGED <<callVars, effectRan, timeouts, lastTimerId, updaterCalls,
                   haltPressed, countAtStepEntry, recordedFrom, presses, ticks>>

\* a user action, counted; the model follows MaxPresses of them
Pressed == presses < MaxPresses /\ presses' = presses + 1

\* A handler of the last render has run: it made the updates, and left the
\* ref and the live intervals as given.  React renders before the event
\* ends, with the updates still queued by timer callbacks first; a mount
\* effect that has not run yet runs before that render, after the handler.
Click(updates, ref, live, since) ==
    /\ \E queue \in {pending \o updates
                        \o (IF effectRan THEN <<>> ELSE Repeated(MountUpdates, updaterCalls))} :
          Commit(queue, ref, live, since)
    /\ effectRan' = TRUE

\* lines 409-414: the algorithm select, disabled in step mode
setSelectedAlgorithm ==
    /\ Pressed
    /\ ~isStepMode
    /\ \E k \in 1..Len(SHUFFLE_ALGORITHMS) :
        /\ SHUFFLE_ALGORITHMS[k] # selectedAlgorithm
        /\ Click(<<SetTo("selectedAlgorithm", SHUFFLE_ALGORITHMS[k])>>,
                 animationIntervalRef, intervals, sinceClear)
    /\ UNCHANGED <<callVars, timeouts, lastTimerId, updaterCalls,
                   haltPressed, countAtStepEntry, recordedFrom, ticks>>

\* lines 70-127; the button (lines 431-438) is disabled in step mode.  The
\* bulk function and the step recorder each make their own draws.
handleShuffle ==
    /\ Pressed
    /\ ~isStepMode
    /\ \E shuffledDeck \in {ShuffleBy(selectedAlgorithm, deck, r).ret : r \in AppTraces(Len(deck))},
          stepsLength \in {Len(StepsBy(selectedAlgorithm, deck, r).ret) : r \in AppTraces(Len(deck))},
          executionTime \in ExecutionTimes :
        LET currentStats == MapGet(algorithmStats, selectedAlgorithm)
        IN  Click((IF currentStats # Undefined
                   THEN <<SetStats(selectedAlgorithm,
                              updateAlgorithmStatistics(currentStats, originalDeck,
                                  shuffledDeck, executionTime, stepsLength))>>
                   ELSE <<>>)
                    \o <<SetTo("deck", shuffledDeck), SetTo("isShuffled", TRUE),
                         IncrementShuffleCount>>
                    \o (IF isStepMode
                        THEN <<SetTo("isStepMode", FALSE), SetTo("currentStepIndex", -1),
                               SetTo("shuffleSteps", <<>>)>>
                        ELSE <<>>),
                  animationIntervalRef, intervals, Completed(sinceClear, selectedAlgorithm))
    /\ UNCHANGED <<callVars, timeouts, lastTimerId, updaterCalls,
                   haltPressed, countAtStepEntry, recordedFrom, ticks>>

\* lines 129-164; the button (lines 439-446) is disabled in step mode
handleStepThroughShuffle ==
    /\ Pressed
    /\ ~isStepMode
    /\ \E steps \in {StepsBy(selectedAlgorithm, deck, r).ret : r \in AppTraces(Len(deck))} :
        Click(<<SetTo("shuffleSteps", steps), SetTo("currentStepIndex", -1),
                SetTo("isStepMode", TRUE),
                SetTo("stepDeck", clearHighlights(ArraySpread(deck)).ret),
                SetTo("isShuffled", FALSE), StoppedUpdate,
                Spread([isPlaying |-> FALSE, isPaused |-> FALSE,
                        currentStepIndex |-> -1, highlightedCards |-> <<>>])>>,
              0, ClearedIntervals(intervals, animationIntervalRef), sinceClear)
    /\ countAtStepEntry' = StatsCount(algorithmStats', selectedAlgorithm)
    /\ recordedFrom' = deck
    /\ UNCHANGED <<callVars, timeouts, lastTimerId, updaterCalls, haltPressed, ticks>>

\* lines 166-199; the button (lines 474-481) is shown in step mode and
\* disabled during playback and on the last record
handleNextStep ==
    /\ Pressed
    /\ isStepMode
    /\ ~animationState.isPlaying
    /\ currentStepIndex < Len(shuffleSteps) - 1
    /\ LET nextStepIndex == currentStepIndex + 1
           newDeck == applyShuffleStep(stepDeck, shuffleSteps[nextStepIndex + 1]).ret
           currentStats == MapGet(algorithmStats, selectedAlgorithm)
       IN  IF nextStepIndex = Len(shuffleSteps) - 1
           THEN Click(<<SetTo("stepDeck", newDeck), SetTo("currentStepIndex", nextStepIndex),
                        SetTo("isShuffled", TRUE), IncrementShuffleCount>>
                        \o (IF currentStats # Undefined
                            THEN <<SetStats(selectedAlgorithm,
                                       updateAlgorithmStatistics(currentStats, originalDeck,
                                           newDeck, 0, Len(shuffleSteps)))>>
                            ELSE <<>>),
                      animationIntervalRef, intervals,
                      Completed(sinceClear, selectedAlgorithm))
           ELSE Click(<<SetTo("stepDeck", newDeck), SetTo("currentStepIndex", nextStepIndex)>>,
                      animationIntervalRef, intervals, sinceClear)
    /\ haltPressed' = FALSE
    /\ UNCHANGED <<callVars, timeouts, lastTimerId, updaterCalls,
                   countAtStepEntry, recordedFrom, ticks>>

\* lines 201-220; the button (lines 466-473) is shown in step mode and
\* disabled during playback and before the first record.  With a target
\* index past the end of the list line 208 hands undefined to
\* applyShuffleStep, which throws before any setter runs: the press changes
\* nothing.
handlePreviousStep ==
    /\ Pressed
    /\ isStepMode
    /\ ~animationState.isPlaying
    /\ currentStepIndex >= 0
    /\ currentStepIndex - 1 < Len(shuffleSteps)
    /\ LET targetStepIndex == currentStepIndex - 1
           rebuilt == ReplaySteps(clearHighlights(ArraySpread(originalDeck)).ret,
                                  shuffleSteps, targetStepIndex)
           newDeck == IF targetStepIndex < 0 THEN clearHighlights(rebuilt).ret ELSE rebuilt
       IN  Click(<<SetTo("stepDeck", newDeck), SetTo("currentStepIndex", targetStepIndex),
                   SetTo("isShuffled", targetStepIndex >= 0)>>,
                 animationIntervalRef, intervals, sinceClear)
    /\ haltPressed' = FALSE
    /\ UNCHANGED <<callVars, timeouts, lastTimerId, updaterCalls,
                   countAtStepEntry, recordedFrom, ticks>>

\* the mutant of handleReset: leaves the step list and the step index alone
handleResetKeepsSteps ==
    /\ Pressed
    /\ isShuffled \/ isStepMode
    /\ LET resetOrderedDeck == resetDeck(createOrderedDeck).ret
       IN  Click(<<SetTo("deck", resetOrderedDeck), SetTo("originalDeck", resetOrderedDeck),
                   SetTo("isShuffled", FALSE), SetTo("shuffleCount", 0),
                   SetTo("isStepMode", FALSE), SetTo("stepDeck", <<>>),
                   StoppedUpdate, SetTo("animationState", InitialAnimationState)>>,
                 0, ClearedIntervals(intervals, animationIntervalRef), sinceClear)
    /\ haltPressed' = TRUE
    /\ countAtStepEntry' = 0
    /\ recordedFrom' = <<>>
    /\ UNCHANGED <<callVars, timeouts, lastTimerId, updaterCalls, ticks>>

\* lines 222-244; the button (lines 447-454) is disabled until the deck is
\* shuffled or step mode is on
handleReset ==
    /\ Pressed
    /\ isShuffled \/ isStepMode
    /\ LET resetOrderedDeck == resetDeck(createOrderedDeck).ret
       IN  Click(<<SetTo("deck", resetOrderedDeck), SetTo("originalDeck", resetOrderedDeck),
                   SetTo("isShuffled", FALSE), SetTo("shuffleCount", 0),
                   SetTo("isStepMode", FALSE), SetTo("currentStepIndex", -1),
                   SetTo("shuffleSteps", <<>>), SetTo("stepDeck", <<>>),
                   StoppedUpdate, SetTo("animationState", InitialAnimationState)>>,
                 0, ClearedIntervals(intervals, animationIntervalRef), sinceClear)
    /\ haltPressed' = TRUE
    /\ countAtStepEntry' = 0
    /\ recordedFrom' = <<>>
    /\ UNCHANGED <<callVars, timeouts, lastTimerId, updaterCalls, ticks>>

\* lines 246-299; the Play button (lines 486-494) is shown in step mode
\* while not playing and disabled on the last step.  The new handle is
\* stored without clearing the interval the ref may hold.
startAnimation ==
    /\ Pressed
    /\ isStepMode
    /\ ~animationState.isPlaying
    /\ currentStepIndex < Len(shuffleSteps) - 1
    /\ ~(~isStepMode \/ Len(shuffleSteps) = 0)
    /\ lastTimerId < MaxTimers
    /\ Click(<<PlayingUpdate>>, lastTimerId + 1, intervals \cup {NewTimer}, sinceClear)
    /\ lastTimerId' = lastTimerId + 1
    /\ haltPressed' = FALSE
    /\ UNCHANGED <<callVars, timeouts, updaterCalls, countAtStepEntry, recordedFrom, ticks>>

\* lines 301-307; the Pause button (lines 496-502) is shown in step mode
\* while playing
pauseAnimation ==
    /\ Pressed
    /\ isStepMode
    /\ animationState.isPlaying
    /\ Click(<<PausedUpdate>>, 0, ClearedIntervals(intervals, animationIntervalRef),
             sinceClear)
    /\ haltPressed' = TRUE
    /\ UNCHANGED <<callVars, timeouts, lastTimerId, updaterCalls,
                   countAtStepEntry, recordedFrom, ticks>>

\* lines 309-315; the Stop button (lines 504-511) is shown in step mode and
\* enabled while playing or paused
stopAnimation ==
    /\ Pressed
    /\ isStepMode
    /\ animationState.isPlaying \/ animationState.isPaused
    /\ Click(<<StoppedUpdate>>, 0, ClearedIntervals(intervals, animationIntervalRef),
             sinceClear)
    /\ haltPressed' = TRUE
    /\ UNCHANGED <<callVars, timeouts, lastTimerId, updaterCalls,
                   countAtStepEntry, recordedFrom, ticks>>

\* lines 317-373, up to the call of setTimeout; the speed buttons (lines
\* 517-540) are shown in step mode
handleSpeedChange ==
    /\ Pressed
    /\ isStepMode
    /\ \E newSpeed \in Speeds :
        LET wasPlaying == animationState.isPlaying
        IN  IF wasPlaying
            THEN /\ lastTimerId < MaxTimers
                 /\ lastTimerId' = lastTimerId + 1
                 /\ timeouts' = Append(timeouts, NewTimer)
                 /\ Click(<<Spread([speed |-> newSpeed]), StoppedUpdate>>,
                          0, ClearedIntervals(intervals, animationIntervalRef), sinceClear)
            ELSE /\ Click(<<Spread([speed |-> newSpeed])>>,
                          animationIntervalRef, intervals, sinceClear)
                 /\ UNCHANGED <<timeouts, lastTimerId>>
    /\ UNCHANGED <<callVars, updaterCalls, haltPressed, countAtStepEntry, recordedFrom, ticks>>

\* lines 326-371: the callback of the setTimeout of handleSpeedChange.  It
\* queues isPlaying: true and starts an interval on the closure of the
\* timeout; the handle is stored without clearing the interval the ref may
\* hold.
restartAnimation ==
    /\ timeouts # <<>>
    /\ Len(pending) < MaxQueued
    /\ lastTimerId < MaxTimers
    /\ lastTimerId' = lastTimerId + 1
    /\ pending' = Append(pending, PlayingUpdate)
    /\ animationIntervalRef' = lastTimerId + 1
    /\ intervals' = intervals \cup {[Head(timeouts) EXCEPT !.handle = lastTimerId + 1]}
    /\ timeouts' = Tail(timeouts)
    /\ UNCHANGED <<callVars, hookVars, effectRan, updaterCalls, historyVars>>

\* lines 254-295 and 331-370: one run of the callback of a live interval.
\* It calls setCurrentStepIndex with an updater.  React calls the updater
\* when it renders, in a later task; or, with no update queued, once as the
\* update is dispatched and, in a development build, once more when it
\* renders.  Which of the two it does is React's choice.  The updater called
\* at dispatch reads the index of the last render; past the last record its
\* stopAnimation() clears the timer of the ref at once.
tick ==
    /\ ticks < MaxTicks
    /\ Len(pending) < MaxQueued
    /\ ticks' = ticks + 1
    /\ \E t \in intervals :
        \/ /\ pending' = Append(pending, AdvanceIndex(t, updaterCalls))
           /\ UNCHANGED <<animationIntervalRef, intervals>>
        \/ /\ pending = <<>>
           /\ IF currentStepIndex + 1 >= Len(t.shuffleSteps)
              THEN /\ pending' = Append(CompletionUpdates(t),
                                        AdvanceIndex(t, updaterCalls - 1))
                   /\ animationIntervalRef' = 0
                   /\ intervals' = ClearedIntervals(intervals, animationIntervalRef)
              ELSE /\ pending' = <<ApplyStep(t.shuffleSteps[currentStepIndex + 2]),
                                   AdvanceIndex(t, updaterCalls - 1)>>
                   /\ UNCHANGED <<animationIntervalRef, intervals>>
    /\ UNCHANGED <<callVars, hookVars, effectRan, timeouts, lastTimerId, updaterCalls,
                   haltPressed, countAtStepEntry, recordedFrom, sinceClear, presses>>

\* lines 380-387; the button (part_000 lines 129-133) is disabled while no
\* algorithm has data
handleClearStats ==
    /\ Pressed
    /\ \E k \in 1..Len(SHUFFLE_ALGORITHMS) :
        StatsCount(algorithmStats, SHUFFLE_ALGORITHMS[k]) > 0
    /\ Click(<<SetTo("algorithmStats", InitialStats), SetTo("shuffleCount", 0)>>,
             animationIntervalRef, intervals,
             [cleared |-> TRUE, completed |-> NoneCompleted])
    /\ UNCHANGED <<callVars, timeouts, lastTimerId, updaterCalls,
                   haltPressed, countAtStepEntry, recordedFrom, ticks>>

\* every handler of the component, its mount effect, every callback of its
\* timers and the renders of React
AppNext ==
    \/ mountEffect
    \/ render
    \/ setSelectedAlgorithm
    \/ handleShuffle
    \/ handleStepThroughShuffle
    \/ handleNextStep
    \/ handlePreviousStep
    \/ handleReset
    \/ startAnimation
    \/ pauseAnimation
    \/ stopAnimation
    \/ handleSpeedChange
    \/ restartAnimation
    \/ tick
    \/ handleClearStats

----------------------------------------------------------------------------
(* Specifications *)

Init ==
    /\ op = "none"
    /\ arg \in InputDecks \cup {FreshDeck(n) : n \in 0..ScoreN}
    /\ arg0 = arg
    /\ arg2 = <<>>
    /\ fed = <<>>
    /\ rnd = <<>>
    /\ step = NoStep
    /\ res = NoResult
    /\ AppStart
    /\ updaterCalls = 1

AppInit ==
    /\ op = "none"
    /\ arg = <<>>
    /\ arg0 = <<>>
    /\ arg2 = <<>>
    /\ fed = <<>>
    /\ rnd = <<>>
    /\ step = NoStep
    /\ res = NoResult
    /\ AppStart
    /\ updaterCalls \in UpdaterCalls

Spec == Init /\ [][Next]_vars

AppSpec == AppInit /\ [][AppNext]_vars

----------------------------------------------------------------------------
(* Vocabulary of the properties *)

BulkShuffles == {"fisherYatesShuffle", "riffleShuffle", "overhandShuffle", "hinduShuffle"}

\* the step recorder that goes with a bulk shuffle
RecorderOf(name, d, r) ==
    CASE name = "fisherYatesShuffle" -> fisherYatesShuffleSteps(d, r)
      [] name = "riffleShuffle" -> riffleShuffleSteps(d, r)
      [] name = "overhandShuffle" -> overhandShuffleSteps(d, r)
      [] name = "hinduShuffle" -> hinduShuffleSteps(d, r)

\* every record of steps applied in order, starting from d
Replayed(d, steps) == ReplaySteps(d, steps, Len(steps) - 1)

\* how many entries of cards carry the id
CountOfId(cards, id) == Cardinality({k \in 1..Len(cards) : IdOf(cards[k]) = id})

\* b holds exactly the cards of a: same length, same multiset of ids
IsPermutationOf(a, b) ==
    /\ Len(a) = Len(b)
    /\ \A k \in 1..Len(a) : CountOfId(b, IdOf(a[k])) = CountOfId(a, IdOf(a[k]))
    /\ \A k \in 1..Len(b) : /\ b[k] # Hole
                            /\ "id" \in DOMAIN b[k]
                            /\ CountOfId(a, IdOf(b[k])) = CountOfId(b, IdOf(b[k]))

\* the same card, whatever position and highlight it carries
SameCard(a, b) ==
    /\ "id" \in DOMAIN a /\ "id" \in DOMAIN b
    /\ a.id = b.id /\ a.suit = b.suit /\ a.rank = b.rank

InRange(i, n) == i >= 0 /\ i <= n - 1

RECURSIVE Factorial(_)
Factorial(n) == IF n <= 1 THEN 1 ELSE n * Factorial(n - 1)

\* the index traces j_(n-1), .., j_1 with j_i in [0, i], in drawing order
AdmissibleIndexTraces(n) ==
    {js \in [1..(n - 1) -> 0..(n - 1)] : \A k \in 1..(n - 1) : js[k] <= n - k}

\* a draw of Math.random() for which Math.floor(Math.random() * (i + 1)) = j
DrawFor(j, i) == CHOOSE k \in 0..(RandDenom - 1) : FloorRandomTimes(k, i + 1) = j

\* a draw trace that makes Fisher-Yates on n cards pick the indices js
DrawTraceFor(js, n) ==
    [k \in 1..Max(n, 1) |-> IF k <= n - 1 THEN DrawFor(js[k], n - k) ELSE 0]

\* the indices Fisher-Yates on n cards picks on the draw trace r
IndexTraceOf(r, n) == [k \in 1..(n - 1) |-> FloorRandomTimes(r[k], n - k + 1)]

\* all orderings of the ids of d
OrderingsOf(d) ==
    LET ids == {IdOf(d[k]) : k \in 1..Len(d)}
    IN  {p \in [1..Len(d) -> ids] : \A a, b \in 1..Len(d) : a # b => p[a] # p[b]}

----------------------------------------------------------------------------
(* C1 *)

\* C1 (as claimed): for each of the four algorithms, every input of N >= 1
\* cards and every draw trace, applying the records of the step recorder in
\* order with applyShuffleStep, starting from the input, gives the order of
\* ids the bulk shuffle returns on the same draws.
C1_ReplayGivesBulkOrder ==
    (op \in BulkShuffles /\ Len(arg0) >= 1) =>
        IdsOf(Replayed(arg0, RecorderOf(op, arg0, rnd).ret)) = IdsOf(res.ret)

----------------------------------------------------------------------------
(* C2 *)

\* C2: for each of the four bulk shuffles, every input of N >= 1 cards and
\* every draw trace, the output is a permutation of the input: same length,
\* same multiset of ids.
C2_BulkOutputIsPermutation ==
    (op \in BulkShuffles /\ Len(arg0) >= 1) => IsPermutationOf(arg0, res.ret)

C2_Witness ==
    /\ op = "riffleShuffle"
    /\ Len(arg0) = MaxN
    /\ IdsOf(res.ret) # IdsOf(arg0)

----------------------------------------------------------------------------
(* C3 *)

\* C3: fisherYatesShuffleSteps on N >= 1 cards returns N - 1 swap records,
\* one per iteration i = N-1 .. 1; the k-th has cardIndices [i, j] with j
\* the index in [0, i] the bulk shuffle draws in that iteration; replaying
\* them from the input gives the order fisherYatesShuffle returns.
C3_FisherYatesStepsMirrorBulk ==
    (op = "fisherYatesShuffleSteps" /\ Len(arg0) >= 1) =>
        LET n == Len(arg0)
            steps == res.ret
        IN  /\ Len(steps) = n - 1
            /\ \A k \in 1..Len(steps) :
                 LET i == n - k
                     j == fisherYatesRandomIndex(rnd[k], i)
                 IN  /\ steps[k].action = "swap"
                     /\ steps[k].cardIndices = <<i, j>>
                     /\ j >= 0 /\ j <= i
            /\ IdsOf(Replayed(arg0, steps)) = IdsOf(fisherYatesShuffle(arg0, rnd).ret)

C3_Witness ==
    /\ op = "fisherYatesShuffleSteps"
    /\ Len(arg0) = MaxN
    /\ Len(res.ret) = MaxN - 1
    /\ \A k \in 1..Len(res.ret) : res.ret[k].cardIndices[1] # res.ret[k].cardIndices[2]
    /\ IdsOf(Replayed(arg0, res.ret)) # IdsOf(arg0)

----------------------------------------------------------------------------
(* C4 *)

\* C4: on N >= 1 distinct cards, fisherYatesShuffle maps the admissible
\* index traces (j_i in [0, i] for i = N-1 .. 1) one-to-one onto the N!
\* orderings of the input, and its output depends on the draws only through
\* the indices they select.
C4_FisherYatesIsBijection ==
    (op = "fisherYatesShuffle" /\ Len(arg0) >= 1) =>
        LET n == Len(arg0)
            traces == AdmissibleIndexTraces(n)
            orderings == {IdsOf(fisherYatesShuffle(arg0, DrawTraceFor(js, n)).ret) :
                            js \in traces}
        IN  /\ Cardinality(traces) = Factorial(n)
            /\ orderings = OrderingsOf(arg0)
            /\ Cardinality(orderings) = Cardinality(traces)
            /\ IndexTraceOf(rnd, n) \in traces
            /\ IdsOf(res.ret) =
                 IdsOf(fisherYatesShuffle(arg0, DrawTraceFor(IndexTraceOf(rnd, n), n)).ret)

C4_Witness ==
    /\ op = "fisherYatesShuffle"
    /\ Len(arg0) = MaxN
    /\ IdsOf(res.ret) = Reversed(IdsOf(arg0))

----------------------------------------------------------------------------
(* C5 *)

\* C5: none of the four bulk shuffles, the four step recorders,
\* applyShuffleStep, resetDeck and clearHighlights changes the array it is
\* given: after the call it holds the same cards in the same order with the
\* same position and isHighlighted values.
C5_InputUnchanged == (op # "none") => arg = arg0

C5_Witness ==
    /\ op = "overhandShuffle"
    /\ arg0 = StaleDeck(MaxN)
    /\ IdsOf(res.ret) # IdsOf(arg0)
    /\ res.shuffledDeck = <<>>

----------------------------------------------------------------------------
(* C6 *)

\* C6: every card a bulk shuffle returns has position equal to its index
\* and isHighlighted = false, whatever the input cards carried.
C6_BulkOutputRenumbered ==
    (op \in BulkShuffles) =>
        \A k \in 1..Len(res.ret) :
            /\ res.ret[k].position = k - 1
            /\ res.ret[k].isHighlighted = FALSE

C6_Witness ==
    /\ op = "hinduShuffle"
    /\ arg0 = StaleDeck(MaxN)
    /\ \E k \in 1..Len(arg0) : arg0[k].isHighlighted
    /\ \E k \in 1..Len(res.ret) :
         res.ret[k].position # arg0[FindIndexById(arg0, res.ret[k].id) + 1].position

----------------------------------------------------------------------------
(* C7 *)

\* C7 (as claimed): in step mode, after any presses of Next Step and
\* Previous Step, also when step mode was entered on a shuffled deck, the
\* step deck has the order that applying records 0 .. currentStepIndex gives
\* on the deck the step list was recorded from.
C7_StepDeckIsReplayOfRecordedDeck ==
    (isStepMode /\ currentStepIndex <= Len(shuffleSteps) - 1) =>
        IdsOf(stepDeck) =
            IdsOf(ReplaySteps(clearHighlights(recordedFrom).ret, shuffleSteps,
                              currentStepIndex))

----------------------------------------------------------------------------
(* C8 *)

\* C8: applyShuffleStep with a swap record of two in-range indices i and j
\* returns the cards at i and j exchanged and every other index unchanged;
\* with a move, split or merge record it returns the cards in input order.
C8_ApplyStepOrder ==
    (op = "applyShuffleStep") =>
        LET n == Len(arg0)
            c == step.cardIndices
        IN  /\ (/\ step.action = "swap" /\ Len(c) = 2
                /\ InRange(c[1], n) /\ InRange(c[2], n)) =>
                   /\ Len(res.ret) = n
                   /\ SameCard(res.ret[c[1] + 1], arg0[c[2] + 1])
                   /\ SameCard(res.ret[c[2] + 1], arg0[c[1] + 1])
                   /\ \A k \in 1..n :
                        (k # c[1] + 1 /\ k # c[2] + 1) => SameCard(res.ret[k], arg0[k])
            /\ (step.action \in {"move", "split", "merge"}) =>
                   /\ Len(res.ret) = n
                   /\ \A k \in 1..n : SameCard(res.ret[k], arg0[k])

C8_Witness ==
    /\ op = "applyShuffleStep"
    /\ Len(arg0) = MaxN
    /\ step.action = "swap"
    /\ step.cardIndices = <<0, MaxN - 1>>
    /\ res.ret[1].id = arg0[MaxN].id
    /\ res.ret[1].id # arg0[1].id

----------------------------------------------------------------------------
(* C9 *)

\* C9: after applyShuffleStep, for any record, a card of the returned
\* sequence is highlighted exactly when its index is listed in cardIndices,
\* and its position is its index; earlier highlights do not survive.
C9_ApplyStepHighlights ==
    (op = "applyShuffleStep") =>
        \A k \in 1..Len(res.ret) :
            res.ret[k] # Hole =>
                /\ res.ret[k].position = k - 1
                /\ res.ret[k].isHighlighted = Includes(step.cardIndices, k - 1)

C9_Witness ==
    /\ op = "applyShuffleStep"
    /\ arg0 = StaleDeck(MaxN)
    /\ step.action = "move"
    /\ step.cardIndices = <<1>>
    /\ arg0[1].isHighlighted /\ ~arg0[2].isHighlighted
    /\ ~res.ret[1].isHighlighted /\ res.ret[2].isHighlighted

----------------------------------------------------------------------------
(* C10 *)

\* C10 (as claimed): applyShuffleStep given a record that lists an index
\* outside [0, N-1] fails with an error and returns no sequence.
C10_OutOfRangeStepFails ==
    (/\ op = "applyShuffleStep"
     /\ \E k \in 1..Len(step.cardIndices) : ~InRange(step.cardIndices[k], Len(arg0))) =>
        res.threw

----------------------------------------------------------------------------
(* C11 *)

StepRecorders ==
    {"fisherYatesShuffleSteps", "riffleShuffleSteps",
     "overhandShuffleSteps", "hinduShuffleSteps"}

\* the call ended in an exception; the results of functions that have no
\* throwing path carry no `threw` field
Threw(out) == "threw" \in DOMAIN out /\ out.threw

\* C11 (as claimed): each of the four bulk shuffles and each of the four
\* step recorders, called with an empty sequence, fails with an error
\* instead of returning an empty deck or a list of records.
C11_EmptyInputFails ==
    (op \in BulkShuffles \cup StepRecorders /\ Len(arg0) = 0) => Threw(res)

----------------------------------------------------------------------------
(* C12 *)

ScoringFunctions == {"calculateRandomnessMetrics", "calculateEntropy"}

\* the call returned the number 0
ReturnedZero(out) == ~Threw(out) /\ out.ret = Num(0)

\* C12: for every sequence X of N >= 1 cards with unique ids,
\* calculateRandomnessMetrics(X, X) = 0 and calculateEntropy(X, X) = 0:
\* both return 0, not NaN, whenever every card is at its original index.
C12_IdenticalOrderScoresZero ==
    (/\ op \in ScoringFunctions
     /\ Len(arg0) >= 1
     /\ IdsOf(arg2) = IdsOf(arg0)) => ReturnedZero(res)

C12_Witness ==
    /\ op = "calculateRandomnessMetrics"
    /\ Len(arg0) = ScoreN
    /\ IdsOf(arg2) = IdsOf(arg0)
    /\ res.ret = Num(0)

----------------------------------------------------------------------------
(* C13 *)

\* C13 (as claimed): calculateRandomnessMetrics and calculateEntropy both
\* return 0 whenever the original and the shuffled sequence differ in
\* length.
C13_MismatchedLengthsScoreZero ==
    (op \in ScoringFunctions /\ Len(arg0) # Len(arg2)) => ReturnedZero(res)

----------------------------------------------------------------------------
(* C14 *)

\* C14 (as claimed): called with two empty sequences,
\* calculateRandomnessMetrics and calculateEntropy each return 0; neither
\* raises an error nor returns NaN.
C14_EmptyDecksScoreZero ==
    (op \in ScoringFunctions /\ Len(arg0) = 0 /\ Len(arg2) = 0) => ReturnedZero(res)

----------------------------------------------------------------------------
(* C15 *)

\* the 1-based place of the card with the id in cards
PlaceOfId(cards, id) == CHOOSE k \in 1..Len(cards) : IdOf(cards[k]) = id

\* c: the cards of original that are at another index in shuffled
ChangedCount(original, shuffled) ==
    Cardinality({k \in 1..Len(original) :
                    PlaceOfId(shuffled, IdOf(original[k])) # k})

\* S: the sum over the cards of |new index - original index|
TotalShift(original, shuffled) ==
    SumOf([k \in 1..Len(original) |->
              Abs(PlaceOfId(shuffled, IdOf(original[k])) - k)])

\* round(100 * (0.6 * c/n + 0.4 * min(S/n / (n/2), 1))) in exact
\* arithmetic: 100 times the bracket is (60 c n + 40 min(2 S, n n)) / (n n)
ExactScore(c, S, n) == MathRound(60 * c * n + 40 * Min(2 * S, n * n), n * n)

SameIdSet(a, b) ==
    /\ Len(a) = Len(b)
    /\ {IdOf(a[k]) : k \in 1..Len(a)} = {IdOf(b[k]) : k \in 1..Len(b)}
    /\ Cardinality({IdOf(a[k]) : k \in 1..Len(a)}) = Len(a)

\* C15 (as claimed): for two sequences of equal length N >= 1 over the same
\* unique ids, calculateRandomnessMetrics returns
\* round(100 * (0.6 * c/N + 0.4 * min(S/N / (N/2), 1))), an integer in
\* [0, 100].
C15_ScoreIsRoundedFormula ==
    (/\ op = "calculateRandomnessMetrics"
     /\ Len(arg0) >= 1
     /\ SameIdSet(arg0, arg2)) =>
        /\ ~res.ret.nan
        /\ res.ret.value \in 0..100
        /\ res.ret.value = ExactScore(ChangedCount(arg0, arg2),
                                      TotalShift(arg0, arg2), Len(arg0))

----------------------------------------------------------------------------
(* C16 *)

\* C16 (as claimed): after initializeAlgorithmStatistics and k >= 1 calls
\* of updateAlgorithmStatistics with step counts s1 .. sk, averageSteps is
\* round(mean(s1 .. sk)), halves rounded up.
C16_AverageStepsIsRoundedMean ==
    (op = "updateAlgorithmStatistics") =>
        res.ret.averageSteps =
            MathRound(SumOf([k \in 1..Len(fed) |-> fed[k].stepCount]), Len(fed))

----------------------------------------------------------------------------
(* C17 *)

\* C17 (as claimed): compareAlgorithms(stats1, stats2) names
\* stats1.algorithmName, the first-listed algorithm, as the winner of every
\* metric on which the two values are equal.
C17_FirstListedWinsTies ==
    (op = "compareAlgorithms") =>
        /\ (res.stats1.randomnessScore = res.stats2.randomnessScore) =>
              res.ret.randomnessComparison.winner = res.stats1.algorithmName
        /\ (getAverageExecutionTime(res.stats1) = getAverageExecutionTime(res.stats2)) =>
              res.ret.speedComparison.winner = res.stats1.algorithmName
        /\ (res.stats1.averageSteps = res.stats2.averageSteps) =>
              res.ret.stepComparison.winner = res.stats1.algorithmName

----------------------------------------------------------------------------
(* C18 *)

\* Math.round of the mean of the execution times, 0 for an empty history
RoundedAverageTime(stats) ==
    IF stats.executionTimes = <<>> THEN 0
    ELSE MathRound(SumOf(stats.executionTimes), Len(stats.executionTimes))

\* the name of the record with the strictly larger value, for values that
\* differ
NameOfLarger(stats1, value1, stats2, value2) ==
    IF value1 > value2 THEN stats1.algorithmName ELSE stats2.algorithmName

\* C18: on strictly different values compareAlgorithms names the algorithm
\* with the higher randomnessScore for randomness, the lower rounded average
\* execution time for speed and the lower averageSteps for steps, in
\* whichever argument position it is.
C18_StrictlyBetterWins ==
    (op = "compareAlgorithms") =>
        LET s1 == res.stats1
            s2 == res.stats2
        IN  /\ (s1.randomnessScore.value # s2.randomnessScore.value) =>
                  res.ret.randomnessComparison.winner =
                      NameOfLarger(s1, s1.randomnessScore.value,
                                   s2, s2.randomnessScore.value)
            /\ (RoundedAverageTime(s1) # RoundedAverageTime(s2)) =>
                  res.ret.speedComparison.winner =
                      NameOfLarger(s1, -RoundedAverageTime(s1),
                                   s2, -RoundedAverageTime(s2))
            /\ (s1.averageSteps # s2.averageSteps) =>
                  res.ret.stepComparison.winner =
                      NameOfLarger(s1, -s1.averageSteps, s2, -s2.averageSteps)

C18_Witness ==
    /\ op = "compareAlgorithms"
    /\ res.stats1.algorithmName # res.stats2.algorithmName
    /\ res.stats1.randomnessScore = Num(90)
    /\ res.stats2.randomnessScore = Num(70)
    /\ res.ret.randomnessComparison.winner = res.stats1.algorithmName
    /\ res.stats1.executionTimes = <<1, 2>>
    /\ res.stats2.executionTimes = <<1>>
    /\ res.ret.speedComparison.winner = res.stats2.algorithmName
    /\ res.stats1.averageSteps < res.stats2.averageSteps
    /\ res.ret.stepComparison.winner = res.stats1.algorithmName

----------------------------------------------------------------------------
(* C19 *)

\* C19: updateAlgorithmStatistics returns a record with shuffleCount one
\* higher, executionTimes the old history with the new time appended at the
\* end and the same algorithmName, and leaves the record passed in as it
\* was; initializeAlgorithmStatistics returns shuffleCount 0, averages 0 and
\* an empty history; so executionTimes.length = shuffleCount after any
\* chain of updates that starts from an initialized record.
C19_UpdateCountsAndAppends ==
    /\ (op = "initializeAlgorithmStatistics") =>
          /\ res.ret.shuffleCount = 0
          /\ res.ret.averageSteps = 0
          /\ res.ret.randomnessScore = Num(0)
          /\ res.ret.executionTimes = <<>>
    /\ (op = "updateAlgorithmStatistics") =>
          LET last == fed[Len(fed)]
          IN  /\ res.ret.shuffleCount = last.currentStats.shuffleCount + 1
              /\ res.ret.executionTimes =
                    last.currentStats.executionTimes \o <<last.executionTime>>
              /\ res.ret.algorithmName = last.currentStats.algorithmName
              /\ res.currentStats = last.currentStats
              /\ Len(res.ret.executionTimes) = res.ret.shuffleCount
              /\ res.ret.shuffleCount = Len(fed)

C19_Witness ==
    /\ op = "updateAlgorithmStatistics"
    /\ Len(fed) = MaxUpdates
    /\ res.ret.shuffleCount = MaxUpdates
    /\ res.ret.executionTimes[1] = 0
    /\ res.ret.executionTimes[MaxUpdates] = 1
    /\ fed[MaxUpdates].executionTime = 1

----------------------------------------------------------------------------
(* C20 *)

\* the record holds no data: the values initializeAlgorithmStatistics gives
IsCleared(stats) ==
    /\ stats.shuffleCount = 0
    /\ stats.averageSteps = 0
    /\ stats.randomnessScore = Num(0)
    /\ stats.executionTimes = <<>>

\* C20 (as claimed): Clear All Stats, pressed in any reachable state,
\* replaces the statistics of every algorithm of SHUFFLE_ALGORITHMS at once
\* with its initialized record; no algorithm keeps earlier data.  The state
\* after the press is the one React commits before the click ends.
C20_ClearResetsEveryAlgorithm ==
    [][handleClearStats =>
          /\ DOMAIN algorithmStats' =
                {SHUFFLE_ALGORITHMS[k] : k \in 1..Len(SHUFFLE_ALGORITHMS)}
          /\ \A name \in DOMAIN algorithmStats' :
                /\ IsCleared(algorithmStats'[name])
                /\ algorithmStats'[name].algorithmName = name]_vars

----------------------------------------------------------------------------
(* C21 *)

\* the shape a record must have: a swap names two indices and sends each
\* source to the other's place; a move has as many destinations as sources
RecordShape(rec) ==
    /\ rec.action = "swap" =>
          /\ Len(rec.cardIndices) = 2
          /\ rec.toPositions = Reversed(rec.fromPositions)
    /\ rec.action = "move" => Len(rec.fromPositions) = Len(rec.toPositions)

\* C21: every record emitted by any of the four step recorders, for any
\* input and draw trace, has the record shape: a swap record has exactly two
\* cardIndices and toPositions is fromPositions reversed; a move record has
\* fromPositions and toPositions of equal length.
C21_RecordsHaveShape ==
    op \in StepRecorders => \A k \in 1..Len(res.ret) : RecordShape(res.ret[k])

C21_Witness ==
    /\ op = "fisherYatesShuffleSteps"
    /\ Len(arg0) >= 3
    /\ Len(res.ret) = Len(arg0) - 1
    /\ \E k \in 1..Len(res.ret) :
          /\ res.ret[k].action = "swap"
          /\ res.ret[k].fromPositions[1] # res.ret[k].fromPositions[2]
          /\ res.ret[k].toPositions = Reversed(res.ret[k].fromPositions)


----------------------------------------------------------------------------
(* C22 *)

\* the card the k-th record of the riffle recorder is about: record 1 is the
\* split, record k > 1 goes with the (k - 1)-th card of the output
RiffleCardOf(out, k) == out.result[k - 1]

\* the index that card had in the deck the recorder was given
RiffleDeckIndex(d, out, k) == PlaceOfId(d, IdOf(RiffleCardOf(out, k))) - 1

\* the card was taken from the left half
RiffleFromLeft(d, out, k) == RiffleDeckIndex(d, out, k) < out.splitPoint

\* the position of that card within the half it was taken from
RifflePositionInHalf(d, out, k) ==
    IF RiffleFromLeft(d, out, k)
    THEN RiffleDeckIndex(d, out, k)
    ELSE RiffleDeckIndex(d, out, k) - out.splitPoint

\* C22 (as claimed): in riffleShuffleSteps, after the initial split record,
\* every move record has as fromPositions the card's position within the
\* half it was taken from and as toPositions the length of the output just
\* before that card was appended.
C22_RiffleMovesRecordPositionInHalf ==
    op = "riffleShuffleSteps" =>
        \A k \in 2..Len(res.ret) :
            /\ res.ret[k].action = "move"
            /\ res.ret[k].fromPositions = <<RifflePositionInHalf(arg0, res, k)>>
            /\ res.ret[k].toPositions = <<k - 2>>

\* C22 (amended): every move record has as fromPositions the index the card
\* had in the deck before the split (for a card of the left half this is its
\* position within the half, for a card of the right half it is the split
\* point plus its position within the half) and as toPositions the length of
\* the output just before the card was appended.
C22_RiffleMovesRecordDeckIndex ==
    op = "riffleShuffleSteps" =>
        \A k \in 2..Len(res.ret) :
            /\ res.ret[k].action = "move"
            /\ res.ret[k].fromPositions =
                  <<IF RiffleFromLeft(arg0, res, k)
                    THEN RifflePositionInHalf(arg0, res, k)
                    ELSE res.splitPoint + RifflePositionInHalf(arg0, res, k)>>
            /\ res.ret[k].toPositions = <<k - 2>>

C22_Witness ==
    /\ op = "riffleShuffleSteps"
    /\ Len(arg0) >= 3
    /\ Len(res.ret) = Len(arg0) + 1
    /\ \E k \in 2..Len(res.ret) :
          /\ ~RiffleFromLeft(arg0, res, k)
          /\ RifflePositionInHalf(arg0, res, k) = 1
          /\ res.ret[k].fromPositions = <<res.splitPoint + 1>>
    /\ \E k \in 3..Len(res.ret) :
          /\ RiffleFromLeft(arg0, res, k)
          /\ res.ret[k].toPositions = <<k - 2>>


----------------------------------------------------------------------------
(* C23 *)

\* the cards the records before the k-th one took, counted from the sizes
\* the records state
RECURSIVE TakenBefore(_, _)
TakenBefore(steps, k) ==
    IF k <= 1 THEN 0
    ELSE TakenBefore(steps, k - 1) + Len(steps[k - 1].cardIndices)

\* C23 (as claimed): in overhandShuffleSteps, each move record for a group of
\* size g has cardIndices = fromPositions = [0..g-1], the front of the
\* current working sequence, and toPositions equal to the indices the group
\* occupies in the result accumulator right after it is placed, the front
\* positions [0..g-1].
C23_OverhandMovesRecordFront ==
    op = "overhandShuffleSteps" =>
        /\ TakenBefore(res.ret, Len(res.ret) + 1) = Len(arg0)
        /\ \A k \in 1..Len(res.ret) :
              LET g == Len(res.ret[k].cardIndices)
              IN  /\ res.ret[k].action = "move"
                  /\ g >= 1
                  /\ res.ret[k].cardIndices = ArrayFromLength(g, 0)
                  /\ res.ret[k].fromPositions = ArrayFromLength(g, 0)
                  /\ res.ret[k].toPositions = ArrayFromLength(g, 0)

----------------------------------------------------------------------------
(* C24 *)

\* C24: in hinduShuffleSteps, each move record for a packet of size p taken
\* when the working sequence has length L has fromPositions = [L-p..L-1],
\* the trailing indices, and toPositions equal to the indices the packet
\* occupies at the back of the result accumulator right after it is
\* appended: the card found at each destination of the accumulator is the
\* card that was at the matching source of the working sequence.
C24_HinduMovesRecordBack ==
    op = "hinduShuffleSteps" =>
        /\ TakenBefore(res.ret, Len(res.ret) + 1) = Len(arg0)
        /\ \A k \in 1..Len(res.ret) :
              LET rec == res.ret[k]
                  p == Len(rec.fromPositions)
                  placed == TakenBefore(res.ret, k)
                  L == Len(arg0) - placed
              IN  /\ rec.action = "move"
                  /\ p >= 1
                  /\ rec.fromPositions = ArrayFromLength(p, L - p)
                  /\ rec.toPositions = ArrayFromLength(p, placed)
                  /\ \A i \in 1..p :
                        res.result[rec.toPositions[i] + 1] = arg0[rec.fromPositions[i] + 1]

C24_Witness ==
    /\ op = "hinduShuffleSteps"
    /\ Len(arg0) >= 3
    /\ Len(res.ret) = 2
    /\ res.ret[1].fromPositions = <<Len(arg0) - 1>>
    /\ res.ret[1].toPositions = <<0>>
    /\ res.ret[2].fromPositions = ArrayFromLength(Len(arg0) - 1, 0)
    /\ res.ret[2].toPositions = ArrayFromLength(Len(arg0) - 1, 1)
    /\ IdsOf(res.result) = IdsOf(<<arg0[Len(arg0)]>> \o SubSeq(arg0, 1, Len(arg0) - 1))


----------------------------------------------------------------------------
(* C25 *)

\* the card of the s-th suit and r-th rank, at the index it is claimed to have
CanonicalCard(s, r) ==
    LET suit == <<"hearts", "diamonds", "clubs", "spades">>[s]
        rank == <<"A", "2", "3", "4", "5", "6", "7", "8", "9", "10", "J", "Q", "K">>[r]
    IN  [id |-> suit \o "-" \o rank, suit |-> suit, rank |-> rank,
         position |-> 13 * (s - 1) + (r - 1), isHighlighted |-> FALSE]

\* C25: createOrderedDeck returns exactly 52 cards with pairwise distinct
\* ids, one per suit-rank combination, in suit-major order (hearts,
\* diamonds, clubs, spades) and rank-minor order (A, 2..10, J, Q, K), each
\* with position equal to its index and isHighlighted = false; two calls
\* return equal decks.
C25_OrderedDeckIsCanonical ==
    op = "createOrderedDeck" =>
        /\ Len(res.ret) = 52
        /\ \A a, b \in 1..Len(res.ret) : a # b => res.ret[a].id # res.ret[b].id
        /\ \A s \in 1..4, r \in 1..13 :
              res.ret[13 * (s - 1) + (r - 1) + 1] = CanonicalCard(s, r)
        /\ "first" \in DOMAIN res => res.first = res.ret

C25_Witness ==
    /\ op = "createOrderedDeck"
    /\ "first" \in DOMAIN res
    /\ Len(res.first) = 52
    /\ res.ret[1].id = "hearts-A"
    /\ res.ret[14].id = "diamonds-A"
    /\ res.ret[52].id = "spades-K"
    /\ res.ret[52].position = 51


----------------------------------------------------------------------------
(* C30 *)

\* the sizes of the groups overhandShuffle takes from n cards on the draw
\* trace r, from the draw used + 1 on: the drawn size, cut to what remains
RECURSIVE OverhandSizes(_, _, _)
OverhandSizes(r, n, used) ==
    IF n <= 0 THEN <<>>
    ELSE LET g == Min(n, FloorRandomTimes(r[used + 1], 7) + 1)
         IN  <<g>> \o OverhandSizes(r, n - g, used + 1)

\* the cards taken before the k-th group
RECURSIVE SizesBefore(_, _)
SizesBefore(sizes, k) == IF k <= 1 THEN 0 ELSE SizesBefore(sizes, k - 1) + sizes[k - 1]

\* the k-th group, taken from the front of what the groups before it left
FrontGroup(d, sizes, k) ==
    SubSeq(d, SizesBefore(sizes, k) + 1, SizesBefore(sizes, k) + sizes[k])

\* groups k, k - 1, .., 1 one after the other, each in its own order
RECURSIVE LastGroupFirst(_, _, _)
LastGroupFirst(d, sizes, k) ==
    IF k = 0 THEN <<>>
    ELSE FrontGroup(d, sizes, k) \o LastGroupFirst(d, sizes, k - 1)

\* C30: overhandShuffle takes groups only from the front of the working
\* sequence, each of size in [1, min(7, remaining length)], and its output is
\* the concatenation of the groups in the reverse order of removal with each
\* group's internal order preserved: the last group removed is at the front
\* of the output, the first group removed at the end.
C30_OverhandReversesGroups ==
    op = "overhandShuffle" =>
        LET sizes == OverhandSizes(rnd, Len(arg0), 0)
        IN  /\ SizesBefore(sizes, Len(sizes) + 1) = Len(arg0)
            /\ \A k \in 1..Len(sizes) :
                  /\ sizes[k] >= 1
                  /\ sizes[k] <= Min(7, Len(arg0) - SizesBefore(sizes, k))
            /\ IdsOf(res.ret) = IdsOf(LastGroupFirst(arg0, sizes, Len(sizes)))

C30_Witness ==
    /\ op = "overhandShuffle"
    /\ Len(arg0) > 7
    /\ OverhandSizes(rnd, Len(arg0), 0)[1] = 7
    /\ Len(OverhandSizes(rnd, Len(arg0), 0)) = 2
    /\ IdsOf(res.ret) = IdsOf(SubSeq(arg0, 8, Len(arg0)) \o SubSeq(arg0, 1, 7))


----------------------------------------------------------------------------
(* C26 *)

\* the deck is the canonical ordered deck, cut to its length
IsCanonicalDeck(cards) ==
    \A k \in 1..Len(cards) :
        cards[k] = CanonicalCard(((k - 1) \div 13) + 1, ((k - 1) % 13) + 1)

\* C26: Reset, pressed in any reachable state (after a shuffle, in the
\* middle of a step-through, during or after playback, with timers still
\* pending), leaves deck and originalDeck equal to the canonical ordered
\* deck of 52 cards, step mode off, currentStepIndex = -1, the step list
\* empty and playback neither playing nor paused.
C26_ResetLeavesInitialState ==
    [][handleReset =>
          /\ Len(deck') = 52
          /\ IsCanonicalDeck(deck')
          /\ originalDeck' = deck'
          /\ ~isStepMode'
          /\ currentStepIndex' = -1
          /\ shuffleSteps' = <<>>
          /\ ~animationState'.isPlaying
          /\ ~animationState'.isPaused]_vars

\* Reset was pressed while the delayed restart of a speed change was
\* pending, after a step of the step-through had been applied
C26_Witness ==
    /\ ~isStepMode
    /\ haltPressed
    /\ timeouts # <<>>
    /\ Len(deck) = 52
    /\ IsCanonicalDeck(deck)
    /\ shuffleSteps = <<>>
    /\ currentStepIndex = -1
    /\ ~animationState.isPlaying

----------------------------------------------------------------------------
(* C27 *)

\* C27: in one step-through the shuffleCount of the selected algorithm grows
\* by at most 1 between entering step mode and leaving it, whatever Next
\* Step, Previous Step, Play and Pause the user performs.
C27_StatisticsOncePerStepThrough ==
    isStepMode => StatsCount(algorithmStats, selectedAlgorithm) <= countAtStepEntry + 1

----------------------------------------------------------------------------
(* C28 *)

\* C28: once Pause, Stop or Reset has been pressed, no timer applies a step
\* until Play, Next Step or Previous Step is pressed: in that period a step
\* that is not a user action (a timer callback, or the render of the updates
\* it queued) leaves currentStepIndex and the step deck unchanged.
C28_NoStepAfterHalt ==
    [][(haltPressed /\ presses' = presses) =>
          (currentStepIndex' = currentStepIndex /\ stepDeck' = stepDeck)]_vars

----------------------------------------------------------------------------
(* C29 *)

\* C29: there is never a live interval timer whose handle is not the one
\* stored in animationIntervalRef, so at most one is live.
C29_OnlyTheRefIntervalIsLive ==
    /\ \A t \in intervals : t.handle = animationIntervalRef
    /\ Cardinality(intervals) <= 1

----------------------------------------------------------------------------
(* C31 *)

\* the sizes of the packets hinduShuffle takes from n cards on the draw
\* trace r, from the draw used + 1 on: the drawn size, cut to what remains
RECURSIVE HinduSizes(_, _, _)
HinduSizes(r, n, used) ==
    IF n <= 0 THEN <<>>
    ELSE LET p == Min(n, FloorRandomTimes(r[used + 1], 6) + 1)
         IN  <<p>> \o HinduSizes(r, n - p, used + 1)

\* the k-th packet, taken from the back of what the packets before it left
BackPacket(d, sizes, k) ==
    SubSeq(d, Len(d) - SizesBefore(sizes, k) - sizes[k] + 1, Len(d) - SizesBefore(sizes, k))

\* packets 1, 2, .., k one after the other, each in its own order
RECURSIVE FirstPacketFirst(_, _, _)
FirstPacketFirst(d, sizes, k) ==
    IF k = 0 THEN <<>>
    ELSE FirstPacketFirst(d, sizes, k - 1) \o BackPacket(d, sizes, k)

\* C31: hinduShuffle takes packets only from the back of the working
\* sequence, each of size in [1, min(6, remaining length)], and its output is
\* the concatenation of the packets in the order of removal with each
\* packet's internal order preserved: the first packet removed, the original
\* tail, is at the front of the output.
C31_HinduKeepsPacketOrder ==
    op = "hinduShuffle" =>
        LET sizes == HinduSizes(rnd, Len(arg0), 0)
        IN  /\ SizesBefore(sizes, Len(sizes) + 1) = Len(arg0)
            /\ \A k \in 1..Len(sizes) :
                  /\ sizes[k] >= 1
                  /\ sizes[k] <= Min(6, Len(arg0) - SizesBefore(sizes, k))
            /\ IdsOf(res.ret) = IdsOf(FirstPacketFirst(arg0, sizes, Len(sizes)))

C31_Witness ==
    /\ op = "hinduShuffle"
    /\ Len(arg0) > 7
    /\ HinduSizes(rnd, Len(arg0), 0)[1] = 6
    /\ Len(HinduSizes(rnd, Len(arg0), 0)) = 2
    /\ IdsOf(res.ret) = IdsOf(SubSeq(arg0, Len(arg0) - 5, Len(arg0))
                                \o SubSeq(arg0, 1, Len(arg0) - 6))

----------------------------------------------------------------------------
(* C32 *)

\* C32: in riffleShuffle and riffleShuffleSteps, for every N >= 2 and every
\* draw, the split point lies in [1, N - 1] and differs from floor(N / 2) by
\* at most 1, so both halves are non-empty and together hold every card
\* exactly once.
C32_RiffleSplitsNearTheMiddle ==
    (op \in {"riffleShuffle", "riffleShuffleSteps"} /\ Len(arg0) >= 2) =>
        LET n == Len(arg0)
            leftHalf == ArraySlice(arg0, 0, res.splitPoint)
            rightHalf == ArraySlice(arg0, res.splitPoint, n)
        IN  /\ res.splitPoint >= 1
            /\ res.splitPoint <= n - 1
            /\ Abs(res.splitPoint - (n \div 2)) <= 1
            /\ Len(leftHalf) >= 1
            /\ Len(rightHalf) >= 1
            /\ Len(leftHalf) + Len(rightHalf) = n
            /\ IsPermutationOf(arg0, leftHalf \o rightHalf)

\* a call on two cards whose draw asks for a split one below the middle,
\* which would leave the left half empty
C32_Witness ==
    /\ op = "riffleShuffleSteps"
    /\ Len(arg0) = 2
    /\ FloorRandomTimes(rnd[1], 3) - 1 = -1
    /\ res.splitPoint = 1

----------------------------------------------------------------------------
(* C33 *)

\* the ids of the sequence ids that belong to the set half, in their order
IdsWithin(ids, half) == SelectSeq(ids, LAMBDA id : id \in half)

\* x is what half ends with
IsTailOf(x, half) ==
    /\ Len(x) <= Len(half)
    /\ x = SubSeq(half, Len(half) - Len(x) + 1, Len(half))

\* before the p-th card of out was taken, both halves still had cards
BothHadCards(out, left, right, p) ==
    /\ Cardinality({q \in 1..(p - 1) : out[q] \in left}) < Cardinality(left)
    /\ Cardinality({q \in 1..(p - 1) : out[q] \in right}) < Cardinality(right)

\* C33: the output of riffleShuffle is an interleaving of the two halves: the
\* cards of the left half appear in their original relative order, likewise
\* the cards of the right half; a draw is consumed only while both halves
\* still have cards (after the one draw for the split point), and once one
\* half is exhausted the rest of the other follows in order.
C33_RiffleInterleavesHalves ==
    op = "riffleShuffle" =>
        LET n == Len(arg0)
            leftHalf == IdsOf(ArraySlice(arg0, 0, res.splitPoint))
            rightHalf == IdsOf(ArraySlice(arg0, res.splitPoint, n))
            left == {leftHalf[k] : k \in 1..Len(leftHalf)}
            right == {rightHalf[k] : k \in 1..Len(rightHalf)}
            out == IdsOf(res.ret)
        IN  /\ Len(out) = n
            /\ IdsWithin(out, left) = leftHalf
            /\ IdsWithin(out, right) = rightHalf
            /\ res.used = 1 + Cardinality({p \in 1..n : BothHadCards(out, left, right, p)})
            /\ \A p \in 1..n :
                  ~BothHadCards(out, left, right, p) =>
                      \/ IsTailOf(SubSeq(out, p, n), leftHalf)
                      \/ IsTailOf(SubSeq(out, p, n), rightHalf)

\* three cards split after the second: the first left card, then the right
\* card on a second draw, then the last left card without a draw
C33_Witness ==
    /\ op = "riffleShuffle"
    /\ Len(arg0) = 3
    /\ res.splitPoint = 2
    /\ IdsOf(res.ret) = <<IdOf(arg0[1]), IdOf(arg0[3]), IdOf(arg0[2])>>
    /\ res.used = 3

----------------------------------------------------------------------------
(* C34 *)

\* the number k of equally likely values of Math.floor(Math.random() * k)
\* in overhandShuffle and in hinduShuffle
RawValues(name) == IF name = "overhandShuffle" THEN 7 ELSE 6

\* the values raw of Math.floor(Math.random() * k) for which
\* Math.min(remaining, raw + 1) is size
RawValuesGiving(size, remaining, k) == {raw \in 0..(k - 1) : Min(remaining, raw + 1) = size}

\* C34 (as claimed): in overhandShuffle (k = 7) and hinduShuffle (k = 6) the
\* size of a group is uniform on [1, min(k, remaining length)]: each size in
\* that range results from the same number of the k raw draw values.  Stated
\* for the first group of a call, whose remaining length is the input's.
C34_GroupSizeIsUniform ==
    (op \in {"overhandShuffle", "hinduShuffle"} /\ Len(arg0) >= 1) =>
        LET k == RawValues(op)
            remaining == Len(arg0)
            drawn == FloorRandomTimes(rnd[1], k)
            first == IF op = "overhandShuffle"
                     THEN OverhandSizes(rnd, remaining, 0)[1]
                     ELSE HinduSizes(rnd, remaining, 0)[1]
        IN  /\ first \in 1..Min(k, remaining)
            /\ drawn \in RawValuesGiving(first, remaining, k)
            /\ \A s1, s2 \in 1..Min(k, remaining) :
                  Cardinality(RawValuesGiving(s1, remaining, k))
                      = Cardinality(RawValuesGiving(s2, remaining, k))

----------------------------------------------------------------------------
(* C35 *)

\* a and b are sequences of equal length over the same set of unique ids
SameUniqueIds(a, b) ==
    /\ IsPermutationOf(a, b)
    /\ \A k \in 1..Len(a) : CountOfId(a, IdOf(a[k])) = 1

\* C35: calculateRandomnessMetrics is symmetric in its two arguments: for
\* two sequences of equal length over the same set of unique ids,
\* calculateRandomnessMetrics(A, B) = calculateRandomnessMetrics(B, A).
C35_ScoreIsSymmetric ==
    (op = "calculateRandomnessMetrics" /\ SameUniqueIds(arg, arg2)) =>
        res.ret = calculateRandomnessMetrics(arg2, arg)

\* a scored pair whose rearrangement is not its own inverse: some card went
\* from one index to another and the card that was there did not go back
C35_Witness ==
    /\ op = "calculateRandomnessMetrics"
    /\ SameUniqueIds(arg, arg2)
    /\ Len(arg) >= 3
    /\ \E k \in 1..Len(arg) :
          FindIndexById(arg2, IdOf(arg[k])) # FindIndexById(arg, IdOf(arg2[k]))
    /\ ~res.ret.nan
    /\ res.ret.value > 0
    /\ res.ret = calculateRandomnessMetrics(arg2, arg)

----------------------------------------------------------------------------
(* C36 *)

\* C36 (as claimed): after Clear All Stats the shuffleCount of each algorithm
\* is the number of shuffles of that algorithm completed after the clear,
\* under every interleaving of Clear, step-through and playback completion:
\* no update of a playback started before the clear writes back a record
\* derived from the statistics of before.
C36_CountsRestartAtClear ==
    sinceClear.cleared =>
        \A k \in 1..Len(SHUFFLE_ALGORITHMS) :
            StatsCount(algorithmStats, SHUFFLE_ALGORITHMS[k])
                = sinceClear.completed[SHUFFLE_ALGORITHMS[k]]

----------------------------------------------------------------------------
(* C37 *)

\* C37 (as claimed): in every reachable state -1 <= currentStepIndex <=
\* shuffleSteps.length - 1, under any interleaving of Step Through, Next
\* Step, Previous Step, Play, Pause, Stop, speed changes, interval ticks and
\* Reset.
C37_StepIndexWithinStepList ==
    /\ currentStepIndex >= -1
    /\ currentStepIndex <= Len(shuffleSteps) - 1
----------------------------------------------------------------------------
(* C38 *)

\* the sequence a step recorder has built when its loop exits: the working
\* deck of fisherYatesShuffleSteps (line 76 on), the result accumulator of
\* the other three
InternalSequence(name, out) ==
    IF name = "fisherYatesShuffle" THEN out.workingDeck ELSE out.result

\* C38: for each of the four algorithms, on the same input and the same draw
\* trace the step recorder consumes the same draws in the same order as the
\* bulk shuffle, and the sequence the recorder builds internally (its
\* working deck or result accumulator at loop exit) has the same order of
\* ids as the bulk shuffle's output.  Both read rnd from its first entry on,
\* one entry for each call of Math.random, so they consume the same draws
\* when they consume equally many.
C38_RecorderFollowsBulkShuffle ==
    op \in BulkShuffles =>
        LET recorder == RecorderOf(op, arg0, rnd)
        IN  /\ recorder.used = res.used
            /\ IdsOf(InternalSequence(op, recorder)) = IdsOf(res.ret)

C38_Witness ==
    /\ op = "fisherYatesShuffle"
    /\ Len(arg0) = MaxN
    /\ rnd[1] # rnd[2]
    /\ res.used = MaxN - 1
    /\ IdsOf(res.ret) # IdsOf(arg0)
    /\ fisherYatesShuffleSteps(arg0, rnd).used = MaxN - 1
    /\ IdsOf(fisherYatesShuffleSteps(arg0, rnd).workingDeck) = IdsOf(res.ret)
----------------------------------------------------------------------------
(* C39 *)

\* every entry of the list of indices lies in [0, n - 1]
AllInRange(indices, n) == \A k \in 1..Len(indices) : InRange(indices[k], n)

\* the three index lists of a record lie in [0, n - 1]
RecordInRange(s, n) ==
    /\ AllInRange(s.cardIndices, n)
    /\ AllInRange(s.fromPositions, n)
    /\ AllInRange(s.toPositions, n)

\* C39: for every input of size N >= 1 and every draw trace, every index in
\* cardIndices, fromPositions and toPositions of every record emitted by any
\* of the four step recorders lies in [0, N-1], so replaying recorder output
\* with applyShuffleStep never touches an out-of-range index: after every
\* record the replayed deck still has N slots, none of them empty.
C39_RecordedIndicesInRange ==
    (op \in StepRecorders /\ Len(arg0) >= 1) =>
        /\ \A k \in 1..Len(res.ret) : RecordInRange(res.ret[k], Len(arg0))
        /\ \A k \in 1..Len(res.ret) :
              LET replayed == ReplaySteps(arg0, res.ret, k - 1)
              IN  /\ Len(replayed) = Len(arg0)
                  /\ \A j \in 1..Len(replayed) : replayed[j] # Hole

C39_Witness ==
    /\ op = "overhandShuffleSteps"
    /\ Len(arg0) = MaxN
    /\ Len(res.ret) = 2
    /\ res.ret[2].toPositions[Len(res.ret[2].toPositions)] = MaxN - 1
    /\ res.ret[1].cardIndices[1] = 0
    /\ RecordInRange(res.ret[1], MaxN)
    /\ RecordInRange(res.ret[2], MaxN)
----------------------------------------------------------------------------
(* C40 *)

\* the number of cards the records of a recorder move: the sum of the
\* lengths of cardIndices over the first k move records
RECURSIVE CardsMoved(_, _)
CardsMoved(steps, k) ==
    IF k = 0 THEN 0
    ELSE CardsMoved(steps, k - 1)
            + (IF steps[k].action = "move" THEN Len(steps[k].cardIndices) ELSE 0)

\* the iterations the loop of the call made: one for each draw of
\* Fisher-Yates, overhand and hindu, one for each card dealt by riffle
Iterations(name, out) ==
    CASE name \in {"riffleShuffle"} -> Len(out.ret)
      [] name \in {"riffleShuffleSteps"} -> Len(out.result)
      [] OTHER -> out.used

\* C40: each of the four bulk shuffles and four step recorders terminates on
\* every input of size N >= 1 and every draw trace after at most N loop
\* iterations, because each iteration of the riffle, overhand and hindu loops
\* removes at least one card from what remains and the Fisher-Yates index
\* strictly decreases; the group or packet sizes of one run sum to exactly N.
C40_LoopsEndWithinNIterations ==
    (op \in BulkShuffles \cup StepRecorders /\ Len(arg0) >= 1) =>
        LET n == Len(arg0)
        IN  /\ Iterations(op, res) <= n
            /\ op \in {"fisherYatesShuffle", "fisherYatesShuffleSteps"} =>
                  res.used = n - 1
            /\ op \in {"riffleShuffle", "riffleShuffleSteps"} =>
                  Iterations(op, res) = n
            /\ op = "overhandShuffle" =>
                  /\ res.shuffledDeck = <<>>
                  /\ Len(OverhandSizes(rnd, n, 0)) = res.used
                  /\ SizesBefore(OverhandSizes(rnd, n, 0), res.used + 1) = n
            /\ op = "hinduShuffle" =>
                  /\ res.shuffledDeck = <<>>
                  /\ Len(HinduSizes(rnd, n, 0)) = res.used
                  /\ SizesBefore(HinduSizes(rnd, n, 0), res.used + 1) = n
            /\ op \in {"overhandShuffleSteps", "hinduShuffleSteps"} =>
                  /\ res.workingDeck = <<>>
                  /\ Len(res.ret) = res.used
                  /\ \A k \in 1..Len(res.ret) : Len(res.ret[k].cardIndices) >= 1
                  /\ CardsMoved(res.ret, Len(res.ret)) = n

C40_Witness ==
    /\ op = "hinduShuffleSteps"
    /\ Len(arg0) = MaxN
    /\ res.used = MaxN
    /\ Len(res.ret) = MaxN
    /\ CardsMoved(res.ret, MaxN) = MaxN
    /\ res.workingDeck = <<>>

============================================================================
